---- MODULE Spec2Model ----
(***************************************************************************)
(* Model of the polyglot execution engine of app.py: the four language     *)
(* executors (execute_python, execute_javascript, execute_java,            *)
(* execute_cpp), their argument marshallers and result parsers, and        *)
(* submit_solution, which runs a submission against the catalog tests.     *)
(*                                                                         *)
(* Text is modelled as a sequence of one-character strings, so that        *)
(* escaping, splitting, stripping and numeral parsing are computed         *)
(* character by character as the Python code computes them.                *)
(***************************************************************************)
EXTENDS Integers, Sequences, FiniteSets, TLC

(***************************************************************************)
(* Characters and text                                                     *)
(***************************************************************************)
NL == "\n"
DQ == "\""
BS == "\\"
SP == " "

Digits == <<"0", "1", "2", "3", "4", "5", "6", "7", "8", "9">>
UpperLetters == <<"A", "B", "C", "D", "E", "F", "G", "H", "I", "J", "K", "L", "M",
                  "N", "O", "P", "Q", "R", "S", "T", "U", "V", "W", "X", "Y", "Z">>
LowerLetters == <<"a", "b", "c", "d", "e", "f", "g", "h", "i", "j", "k", "l", "m",
                  "n", "o", "p", "q", "r", "s", "t", "u", "v", "w", "x", "y", "z">>

IsDigit(c) == \E i \in DOMAIN Digits : Digits[i] = c
DigitVal(c) == (CHOOSE i \in DOMAIN Digits : Digits[i] = c) - 1
IsSpace(c) == c \in {SP, NL, "\t", "\r"}

\* str.lower() on one character
LowerChar(c) ==
    IF \E i \in DOMAIN UpperLetters : UpperLetters[i] = c
    THEN LowerLetters[CHOOSE i \in DOMAIN UpperLetters : UpperLetters[i] = c]
    ELSE c

\* str.lower()
Lower(s) == [i \in DOMAIN s |-> LowerChar(s[i])]

\* 'c' in s
Contains(s, c) == \E i \in DOMAIN s : s[i] = c

\* s.startswith(p)
StartsWith(s, p) == Len(s) >= Len(p) /\ SubSeq(s, 1, Len(p)) = p

\* s[k:] with k counted from 0 as in Python
DropPrefix(s, k) == SubSeq(s, k + 1, Len(s))

\* s.strip(): leading and trailing whitespace removed
Strip(s) ==
    LET keep == {i \in DOMAIN s : ~IsSpace(s[i])}
    IN  IF keep = {} THEN <<>>
        ELSE SubSeq(s, CHOOSE i \in keep : \A j \in keep : i <= j,
                       CHOOSE i \in keep : \A j \in keep : i >= j)

\* s.split('\n'): the pieces between newlines, the empty ones included
RECURSIVE SplitLines(_)
SplitLines(s) ==
    IF ~Contains(s, NL) THEN <<s>>
    ELSE LET k == CHOOSE i \in DOMAIN s : s[i] = NL /\ \A j \in 1..(i - 1) : s[j] # NL
         IN  <<SubSeq(s, 1, k - 1)>> \o SplitLines(SubSeq(s, k + 1, Len(s)))

\* sep.join(parts)
RECURSIVE Join(_, _)
Join(sep, parts) ==
    IF parts = <<>> THEN <<>>
    ELSE IF Len(parts) = 1 THEN parts[1]
    ELSE parts[1] \o sep \o Join(sep, Tail(parts))

\* s.replace(c, r) for a one-character c and a text r
RECURSIVE Replace(_, _, _)
Replace(s, c, r) ==
    IF s = <<>> THEN <<>>
    ELSE (IF s[1] = c THEN r ELSE <<s[1]>>) \o Replace(Tail(s), c, r)

SENTINEL == <<"R", "E", "S", "U", "L", "T", ":">>

(***************************************************************************)
(* Numerals: str(int), int(text), float(text)                              *)
(***************************************************************************)
RECURSIVE NatToText(_)
NatToText(n) ==
    IF n < 10 THEN <<Digits[n + 1]>>
    ELSE NatToText(n \div 10) \o <<Digits[(n % 10) + 1]>>

\* str(n) for an int n
IntToText(n) == IF n < 0 THEN <<"-">> \o NatToText(-n) ELSE NatToText(n)

\* digit (["_"] digit)* : the digit part of a Python numeral
IsDigitPart(s) ==
    /\ s # <<>>
    /\ \A i \in DOMAIN s : IsDigit(s[i]) \/ s[i] = "_"
    /\ IsDigit(s[1]) /\ IsDigit(s[Len(s)])
    /\ \A i \in 1..(Len(s) - 1) : ~(s[i] = "_" /\ s[i + 1] = "_")

RECURSIVE DigitPartVal(_)
DigitPartVal(s) ==
    IF s = <<>> THEN 0
    ELSE IF s[Len(s)] = "_" THEN DigitPartVal(SubSeq(s, 1, Len(s) - 1))
    ELSE 10 * DigitPartVal(SubSeq(s, 1, Len(s) - 1)) + DigitVal(s[Len(s)])

HasSign(s) == s # <<>> /\ s[1] \in {"+", "-"}
Unsigned(s) == IF HasSign(s) THEN Tail(s) ELSE s
SignOf(s) == IF s # <<>> /\ s[1] = "-" THEN -1 ELSE 1

\* int(s) succeeds (s without surrounding whitespace)
PyIntOK(s) == IsDigitPart(Unsigned(s))
PyIntVal(s) == SignOf(s) * DigitPartVal(Unsigned(s))

\* float(s) succeeds, for a text s that contains a decimal point and no
\* exponent letter: [sign] (digitpart "." [digitpart] | "." digitpart)
PyFloatOK(s) ==
    LET u == Unsigned(s)
        dots == {i \in DOMAIN u : u[i] = "."}
    IN  /\ Cardinality(dots) = 1
        /\ LET d == CHOOSE i \in dots : TRUE
               ip == SubSeq(u, 1, d - 1)
               fp == SubSeq(u, d + 1, Len(u))
           IN  /\ ip = <<>> \/ IsDigitPart(ip)
               /\ fp = <<>> \/ IsDigitPart(fp)
               /\ ip # <<>> \/ fp # <<>>

RECURSIVE Pow10(_)
Pow10(k) == IF k = 0 THEN 1 ELSE 10 * Pow10(k - 1)

RECURSIVE CountDigits(_)
CountDigits(s) ==
    IF s = <<>> THEN 0
    ELSE (IF IsDigit(s[1]) THEN 1 ELSE 0) + CountDigits(Tail(s))

\* the value of float(s) as the pair <<m, e>> denoting m / 10^e, with e least
RECURSIVE Reduce(_, _)
Reduce(m, e) == IF e > 0 /\ m % 10 = 0 THEN Reduce(m \div 10, e - 1) ELSE <<m, e>>

PyFloatVal(s) ==
    LET u == Unsigned(s)
        d == CHOOSE i \in DOMAIN u : u[i] = "."
        ip == SubSeq(u, 1, d - 1)
        fp == SubSeq(u, d + 1, Len(u))
        e == CountDigits(fp)
    IN  Reduce(SignOf(s) * (DigitPartVal(ip) * Pow10(e) + DigitPartVal(fp)), e)

(***************************************************************************)
(* Canonical (Python) values.  Every value is a record of one shape:       *)
(* t the type, n the number (an int, a bool as 1/0, a float's mantissa),   *)
(* e a float's count of fraction digits, s a str's characters, xs the      *)
(* items of a list or tuple.                                               *)
(***************************************************************************)
Val(t, n, e, s, xs) == [t |-> t, n |-> n, e |-> e, s |-> s, xs |-> xs]
VInt(n) == Val("Int", n, 0, <<>>, <<>>)
VBool(b) == Val("Bool", IF b THEN 1 ELSE 0, 0, <<>>, <<>>)
VFloat(me) == Val("Float", me[1], me[2], <<>>, <<>>)
VStr(s) == Val("Str", 0, 0, s, <<>>)
VTuple(xs) == Val("Tuple", 0, 0, <<>>, xs)
VList(xs) == Val("List", 0, 0, <<>>, xs)
VNone == Val("None", 0, 0, <<>>, <<>>)
\* the outcome of a conversion that raised ValueError
ValueError == Val("ValueError", 0, 0, <<>>, <<>>)

IsNumber(v) == v.t \in {"Int", "Bool", "Float"}

\* Python's ==: numbers (bool included) compare by value, lists and tuples
\* item by item and never with each other, everything else by type and content
RECURSIVE PyEq(_, _)
PyEq(a, b) ==
    IF IsNumber(a) /\ IsNumber(b) THEN a.n * Pow10(b.e) = b.n * Pow10(a.e)
    ELSE IF a.t \in {"List", "Tuple"}
    THEN /\ b.t = a.t
         /\ Len(b.xs) = Len(a.xs)
         /\ \A i \in DOMAIN a.xs : PyEq(a.xs[i], b.xs[i])
    ELSE a = b

\* what a for loop over v visits: the items of a list or tuple, the
\* one-character strings of a str
Items(v) == IF v.t = "Str" THEN [i \in DOMAIN v.s |-> VStr(<<v.s[i]>>)] ELSE v.xs

\* str(x) for a float x = m / 10^e: the integer part, ".", the fraction
FloatToText(m, e) ==
    LET a == IF m < 0 THEN -m ELSE m
        ip == a \div Pow10(e)
        fp == a % Pow10(e)
        ft == NatToText(fp)
        pad == [i \in 1..(e - Len(ft)) |-> "0"]
    IN  (IF m < 0 THEN <<"-">> ELSE <<>>) \o NatToText(ip) \o <<".">>
        \o (IF e = 0 THEN <<"0">> ELSE pad \o ft)

\* repr(s) for a str s: single quotes unless s has a single and no double quote
StrRepr(s) ==
    LET q == IF Contains(s, "'") /\ ~Contains(s, DQ) THEN DQ ELSE "'"
    IN  <<q>> \o Replace(Replace(Replace(s, BS, <<BS, BS>>), q, <<BS, q>>), NL, <<BS, "n">>)
        \o <<q>>

\* repr(v)
RECURSIVE PyRepr(_)
PyRepr(v) ==
    CASE v.t = "Int" -> IntToText(v.n)
      [] v.t = "Bool" -> IF v.n = 1 THEN <<"T", "r", "u", "e">> ELSE <<"F", "a", "l", "s", "e">>
      [] v.t = "Float" -> FloatToText(v.n, v.e)
      [] v.t = "Str" -> StrRepr(v.s)
      [] v.t = "None" -> <<"N", "o", "n", "e">>
      [] v.t = "List" ->
            <<"[">> \o Join(<<",", SP>>, [i \in DOMAIN v.xs |-> PyRepr(v.xs[i])]) \o <<"]">>
      [] v.t = "Tuple" ->
            <<"(">> \o Join(<<",", SP>>, [i \in DOMAIN v.xs |-> PyRepr(v.xs[i])])
            \o (IF Len(v.xs) = 1 THEN <<",">> ELSE <<>>) \o <<")">>

\* str(v), also what an f-string {v} inserts
PyStr(v) == IF v.t = "Str" THEN v.s ELSE PyRepr(v)

(***************************************************************************)
(* Value marshallers: a Python value to a literal of the target language   *)
(***************************************************************************)
\* val.replace('\\', '\\\\').replace('"', '\\"')
Escape(s) == Replace(Replace(s, BS, <<BS, BS>>), DQ, <<BS, DQ>>)

T_true == <<"t", "r", "u", "e">>
T_false == <<"f", "a", "l", "s", "e">>
T_null == <<"n", "u", "l", "l">>
T_newObject == <<"n", "e", "w", SP, "O", "b", "j", "e", "c", "t", "[", "]", "{">>

RECURSIVE python_to_java(_)
python_to_java(val) ==
    CASE val.t = "Bool" -> IF val.n = 1 THEN T_true ELSE T_false
      [] val.t = "Str" -> <<DQ>> \o Escape(val.s) \o <<DQ>>
      [] val.t \in {"Int", "Float"} -> PyStr(val)
      [] val.t \in {"List", "Tuple"} ->
            T_newObject
            \o Join(<<",", SP>>, [i \in DOMAIN val.xs |-> python_to_java(val.xs[i])])
            \o <<"}">>
      [] OTHER -> PyStr(val)

python_to_cpp(val) ==
    CASE val.t = "Bool" -> IF val.n = 1 THEN T_true ELSE T_false
      [] val.t = "Str" -> <<DQ>> \o Escape(val.s) \o <<DQ>>
      [] val.t \in {"Int", "Float"} -> PyStr(val)
      [] OTHER -> PyStr(val)

\* json.dumps(s) for a str s of printable ASCII
JsonString(s) ==
    <<DQ>> \o Replace(Replace(Replace(s, BS, <<BS, BS>>), DQ, <<BS, DQ>>), NL, <<BS, "n">>)
    \o <<DQ>>

\* json.dumps(val) (sep = ", ") and JSON.stringify(val) (sep = ",")
RECURSIVE JsonText(_, _)
JsonText(val, sep) ==
    CASE val.t = "Bool" -> IF val.n = 1 THEN T_true ELSE T_false
      [] val.t = "Int" -> IntToText(val.n)
      [] val.t = "Float" -> FloatToText(val.n, val.e)
      [] val.t = "Str" -> JsonString(val.s)
      [] val.t = "None" -> T_null
      [] val.t \in {"List", "Tuple"} ->
            <<"[">> \o Join(sep, [i \in DOMAIN val.xs |-> JsonText(val.xs[i], sep)])
            \o <<"]">>

JsonDumps(val) == JsonText(val, <<",", SP>>)

(***************************************************************************)
(* json.loads: a recursive-descent reading of a JSON text                  *)
(***************************************************************************)
JSONDecodeError == Val("JSONDecodeError", 0, 0, <<>>, <<>>)
JFail == [ok |-> FALSE, v |-> JSONDecodeError, rest |-> <<>>]
JOk(v, rest) == [ok |-> TRUE, v |-> v, rest |-> rest]

RECURSIVE SkipWs(_)
SkipWs(s) == IF s # <<>> /\ IsSpace(s[1]) THEN SkipWs(Tail(s)) ELSE s

\* the characters of a string literal up to its closing quote, escapes read
RECURSIVE JString(_, _)
JString(s, acc) ==
    IF s = <<>> \/ s[1] = NL THEN JFail
    ELSE IF s[1] = DQ THEN JOk(VStr(acc), Tail(s))
    ELSE IF s[1] = BS
    THEN IF Len(s) < 2 THEN JFail
         ELSE IF s[2] \in {DQ, BS, "/"} THEN JString(DropPrefix(s, 2), Append(acc, s[2]))
         ELSE IF s[2] = "n" THEN JString(DropPrefix(s, 2), Append(acc, NL))
         ELSE IF s[2] = "t" THEN JString(DropPrefix(s, 2), Append(acc, "\t"))
         ELSE IF s[2] = "r" THEN JString(DropPrefix(s, 2), Append(acc, "\r"))
         ELSE JFail
    ELSE JString(Tail(s), Append(acc, s[1]))

\* the longest prefix of s made of numeral characters
RECURSIVE NumPrefixLen(_)
NumPrefixLen(s) ==
    IF s # <<>> /\ (IsDigit(s[1]) \/ s[1] \in {"-", "."}) THEN 1 + NumPrefixLen(Tail(s)) ELSE 0

\* a JSON number: -? (0 | nonzero digits) (. digits)?
JNumberOK(t) ==
    LET u == IF t # <<>> /\ t[1] = "-" THEN Tail(t) ELSE t
        dots == {i \in DOMAIN u : u[i] = "."}
        ip == IF dots = {} THEN u ELSE SubSeq(u, 1, (CHOOSE i \in dots : TRUE) - 1)
        fp == IF dots = {} THEN <<>> ELSE SubSeq(u, (CHOOSE i \in dots : TRUE) + 1, Len(u))
    IN  /\ Cardinality(dots) <= 1
        /\ ~Contains(u, "-")
        /\ ip # <<>> /\ \A i \in DOMAIN ip : IsDigit(ip[i])
        /\ Len(ip) > 1 => ip[1] # "0"
        /\ dots # {} => (fp # <<>> /\ \A i \in DOMAIN fp : IsDigit(fp[i]))

RECURSIVE JParse(_)
RECURSIVE JItems(_, _)
JParse(s0) ==
    LET s == SkipWs(s0)
    IN  IF s = <<>> THEN JFail
        ELSE IF StartsWith(s, T_true) THEN JOk(VBool(TRUE), DropPrefix(s, 4))
        ELSE IF StartsWith(s, T_false) THEN JOk(VBool(FALSE), DropPrefix(s, 5))
        ELSE IF StartsWith(s, T_null) THEN JOk(VNone, DropPrefix(s, 4))
        ELSE IF s[1] = DQ THEN JString(Tail(s), <<>>)
        ELSE IF s[1] = "["
        THEN LET r == SkipWs(Tail(s))
             IN  IF r # <<>> /\ r[1] = "]" THEN JOk(VList(<<>>), Tail(r))
                 ELSE JItems(r, <<>>)
        ELSE LET k == NumPrefixLen(s)
                 t == SubSeq(s, 1, k)
             IN  IF ~JNumberOK(t) THEN JFail
                 ELSE IF Contains(t, ".") THEN JOk(VFloat(PyFloatVal(t)), DropPrefix(s, k))
                 ELSE JOk(VInt(PyIntVal(t)), DropPrefix(s, k))

JItems(s, acc) ==
    LET p == JParse(s)
        r == SkipWs(p.rest)
    IN  IF ~p.ok \/ r = <<>> THEN JFail
        ELSE IF r[1] = "," THEN JItems(Tail(r), Append(acc, p.v))
        ELSE IF r[1] = "]" THEN JOk(VList(Append(acc, p.v)), Tail(r))
        ELSE JFail

\* json.loads(s): the value, or JSONDecodeError
JsonLoads(s) ==
    LET p == JParse(s)
    IN  IF p.ok /\ SkipWs(p.rest) = <<>> THEN p.v ELSE JSONDecodeError

(***************************************************************************)
(* Result parsers: the stdout of the run process back to a Python value    *)
(***************************************************************************)
\* RuntimeError('Could not find RESULT in output: ...')
NotFound == Val("NotFound", 0, 0, <<>>, <<>>)

\* FirstResultLine were the loop to keep the last sentinel line instead
LastResultLine(lines) ==
    LET hits == {i \in DOMAIN lines : StartsWith(lines[i], SENTINEL)}
    IN  IF hits = {} THEN 0 ELSE CHOOSE i \in hits : \A j \in hits : i >= j

\* the position in lines of the line the for loop stops at, 0 if it ends
\* without meeting a line that starts with the sentinel
FirstResultLine(lines) ==
    LET hits == {i \in DOMAIN lines : StartsWith(lines[i], SENTINEL)}
    IN  IF hits = {} THEN 0 ELSE CHOOSE i \in hits : \A j \in hits : i <= j

\* try: float(result_str) if '.' in result_str else int(result_str)
TryNumber(result_str) ==
    IF Contains(result_str, ".")
    THEN IF PyFloatOK(result_str) THEN VFloat(PyFloatVal(result_str)) ELSE ValueError
    ELSE IF PyIntOK(result_str) THEN VInt(PyIntVal(result_str)) ELSE ValueError

\* JavaResultValue were it to compare result_str without lower()
JavaResultValue_CaseSensitive(result_str) ==
    LET num == TryNumber(result_str)
    IN  IF num # ValueError THEN num
        ELSE IF result_str = T_true THEN VBool(TRUE)
        ELSE IF result_str = T_false THEN VBool(FALSE)
        ELSE VStr(result_str)

\* JavaResultValue were it to decode the text as JSON where it can
JavaResultValue_Json(result_str) ==
    IF JsonLoads(result_str) # JSONDecodeError THEN JsonLoads(result_str)
    ELSE VStr(result_str)

\* execute_java: the value of the text after the sentinel
JavaResultValue(result_str) ==
    LET num == TryNumber(result_str)
    IN  IF num # ValueError THEN num
        ELSE IF Lower(result_str) = T_true THEN VBool(TRUE)
        ELSE IF Lower(result_str) = T_false THEN VBool(FALSE)
        ELSE VStr(result_str)

\* execute_cpp: the value of the text after the sentinel
CppResultValue(result_str) ==
    LET num == TryNumber(result_str)
    IN  IF num # ValueError THEN num
        ELSE IF result_str = <<"1">> THEN VBool(TRUE)
        ELSE IF result_str = <<"0">> THEN VBool(FALSE)
        ELSE VStr(result_str)

\* the parse loop of execute_java over the whole stdout
JavaParse(output) ==
    LET lines == SplitLines(output)
        k == FirstResultLine(lines)
    IN  IF k = 0 THEN NotFound ELSE JavaResultValue(Strip(DropPrefix(lines[k], 7)))

\* the parse loop of execute_cpp over the whole stdout
CppParse(output) ==
    LET lines == SplitLines(output)
        k == FirstResultLine(lines)
    IN  IF k = 0 THEN NotFound ELSE CppResultValue(Strip(DropPrefix(lines[k], 7)))

\* the parse loop of execute_javascript over the whole stdout
JsParse(output) ==
    LET lines == SplitLines(output)
        k == FirstResultLine(lines)
    IN  IF k = 0 THEN NotFound ELSE JsonLoads(DropPrefix(lines[k], 7))

(***************************************************************************)
(* The target toolchains, as far as the harness exercises them: how javac, *)
(* g++ and node read the literals the marshaller wrote, and what the       *)
(* generated program prints.                                               *)
(***************************************************************************)
NoLiteral == Val("NoLiteral", 0, 0, <<>>, <<>>)

\* the characters a Java or C++ string literal denotes: s is the text after the
\* opening quote, and must end with the closing quote
RECURSIVE StringLiteral(_, _)
StringLiteral(s, acc) ==
    IF s = <<>> \/ s[1] \in {NL, "\r"} THEN JFail
    ELSE IF s[1] = DQ THEN (IF Len(s) = 1 THEN JOk(VStr(acc), <<>>) ELSE JFail)
    ELSE IF s[1] = BS
    THEN IF Len(s) < 2 THEN JFail
         ELSE IF s[2] \in {DQ, BS, "'"} THEN StringLiteral(DropPrefix(s, 2), Append(acc, s[2]))
         ELSE IF s[2] = "n" THEN StringLiteral(DropPrefix(s, 2), Append(acc, NL))
         ELSE IF s[2] = "t" THEN StringLiteral(DropPrefix(s, 2), Append(acc, "\t"))
         ELSE IF s[2] = "r" THEN StringLiteral(DropPrefix(s, 2), Append(acc, "\r"))
         ELSE JFail
    ELSE StringLiteral(Tail(s), Append(acc, s[1]))

\* an argument list split at its top-level commas
RECURSIVE ScanArgs(_, _, _, _, _, _)
ScanArgs(s, inStr, esc, depth, cur, acc) ==
    IF s = <<>> THEN (IF cur = <<>> /\ acc = <<>> THEN <<>> ELSE Append(acc, Strip(cur)))
    ELSE LET c == s[1]
             r == Tail(s)
         IN  IF inStr
             THEN ScanArgs(r, esc \/ c # DQ, ~esc /\ c = BS, depth, Append(cur, c), acc)
             ELSE IF c = DQ THEN ScanArgs(r, TRUE, FALSE, depth, Append(cur, c), acc)
             ELSE IF c \in {"(", "[", "{"}
             THEN ScanArgs(r, FALSE, FALSE, depth + 1, Append(cur, c), acc)
             ELSE IF c \in {")", "]", "}"}
             THEN ScanArgs(r, FALSE, FALSE, depth - 1, Append(cur, c), acc)
             ELSE IF c = "," /\ depth = 0
             THEN ScanArgs(r, FALSE, FALSE, depth, <<>>, Append(acc, Strip(cur)))
             ELSE ScanArgs(r, FALSE, FALSE, depth, Append(cur, c), acc)

SplitArgs(text) == ScanArgs(text, FALSE, FALSE, 0, <<>>, <<>>)

\* the value a literal of the target language denotes, NoLiteral if the text
\* is no literal of that language
RECURSIVE TargetLiteral(_, _)
TargetLiteral(lang, text) ==
    IF text = T_true THEN VBool(TRUE)
    ELSE IF text = T_false THEN VBool(FALSE)
    ELSE IF text # <<>> /\ text[1] = DQ
    THEN LET p == StringLiteral(Tail(text), <<>>) IN IF p.ok THEN p.v ELSE NoLiteral
    ELSE IF JNumberOK(text)
    THEN IF Contains(text, ".") THEN VFloat(PyFloatVal(text))
         ELSE VInt(PyIntVal(text))
    ELSE IF lang = "java" /\ StartsWith(text, T_newObject) /\ text[Len(text)] = "}"
    THEN LET parts == SplitArgs(SubSeq(text, Len(T_newObject) + 1, Len(text) - 1))
             items == [i \in DOMAIN parts |-> TargetLiteral(lang, parts[i])]
         IN  IF \E i \in DOMAIN items : items[i] = NoLiteral THEN NoLiteral
             ELSE VList(items)
    ELSE NoLiteral

\* the argument values of the harness's call expression
ArgVals(lang, argText) ==
    LET parts == SplitArgs(argText) IN [i \in DOMAIN parts |-> TargetLiteral(lang, parts[i])]

\* the declared parameters accept the arguments.  int summation(int a, int b):
\* Java takes two int literals, C++ also converts bool and double arguments to
\* int.  two_sum as the stubs declare it, (int[] nums, int target) in Java and
\* (vector<int>& nums, int target) in C++: no rendered text is an int[] or a
\* vector<int> lvalue, a new Object[]{...} is an Object[].  two_sum declared
\* with (Object[] nums, int target) takes the Object[] of int literals.
ParamsOK(lang, body, vals) ==
    /\ Len(vals) = 2
    /\ CASE body = "pairs" -> FALSE
          [] body = "pairs_obj" ->
                /\ lang = "java"
                /\ vals[1].t = "List" /\ \A i \in DOMAIN vals[1].xs : vals[1].xs[i].t = "Int"
                /\ vals[2].t = "Int"
          [] OTHER ->
                \A i \in DOMAIN vals :
                   vals[i].t \in (IF lang = "java" THEN {"Int"} ELSE {"Int", "Bool", "Float"})

\* an argument converted to the int parameter
ToInt(v) == IF v.t = "Float" THEN (IF v.n < 0 THEN -((-v.n) \div Pow10(v.e))
                                   ELSE v.n \div Pow10(v.e))
            ELSE v.n

(***************************************************************************)
(* Submissions.  A submission is the text the user sent, described by what *)
(* the toolchain makes of it: compile (ok: well-formed; error: a syntax     *)
(* error; hang: the compiler does not finish), name (the function it       *)
(* defines) and body (what the function does when called).                 *)
(***************************************************************************)
N_summation == <<"s", "u", "m", "m", "a", "t", "i", "o", "n">>
N_other == <<"a", "d", "d">>
N_second_largest == <<"s", "e", "c", "o", "n", "d", "_", "l", "a", "r", "g", "e", "s", "t">>
N_two_sum == <<"t", "w", "o", "_", "s", "u", "m">>
T_forged == SENTINEL \o <<"7", NL>>

\* what a function written for summation does; "forgefail" prints the forged
\* line and then fails as "raise" does
Bodies == {"sum", "zero", "forge", "raise", "forgefail", "exit0", "loop"}
\* a correct two_sum: "pairs" declared as the stubs declare it, "pairs_obj"
\* a Java method declared List<Integer> two_sum(Object[] nums, int target)
\* "sortpairs" a Python two_sum that sorts its list argument in place first:
\*   def two_sum(nums, target):
\*       nums.sort()
\*       ... the positions in nums, as "pairs" finds them
PairBodies == {"pairs", "pairs_obj", "sortpairs"}
\* Python submissions that use the interpreter's builtins:
\*   builtin  def summation(a, b):       patch  import builtins
\*                return sum([a, b])            builtins.sum = lambda xs: 0
\*                                              def summation(a, b):
\*                                                  return a + b
BuiltinBodies == {"builtin", "patch"}

Code(compile, name, body) == [compile |-> compile, name |-> name, body |-> body]

\* "return a + b", the submission of test_langs.py
SumCode == Code("ok", N_summation, "sum")

\* exit(0) before returning is a process exit, which only a child process has
Submissions(lang) ==
    {Code("ok", nm, b) : nm \in {N_summation, N_other},
                         b \in (IF lang = "python" THEN Bodies \ {"exit0"} ELSE Bodies)}
    \cup {Code("error", N_summation, "sum")}
    \cup (IF lang \in {"java", "cpp"} THEN {Code("hang", N_summation, "sum")} ELSE {})
    \cup {Code("ok", N_two_sum, "pairs")}
    \cup (IF lang = "java" THEN {Code("ok", N_two_sum, "pairs_obj")} ELSE {})
    \cup (IF lang = "python" THEN {Code("ok", N_summation, b) : b \in BuiltinBodies} ELSE {})
    \cup (IF lang = "python" THEN {Code("ok", N_two_sum, "sortpairs")} ELSE {})

\* what the function returns for the int arguments a and b
Returned(code, a, b) == IF code.body = "zero" THEN 0 ELSE a + b

\* a list of ints and an int: the arguments two_sum works on
PairArgs(xs) ==
    /\ Len(xs) = 2
    /\ xs[1].t = "List" /\ \A i \in DOMAIN xs[1].xs : xs[1].xs[i].t = "Int"
    /\ xs[2].t = "Int"

\* what a correct two_sum returns: the positions, counted from 0, of the first
\* two numbers that add up to target, [-1, -1] when there are none
TwoSum(nums, target) ==
    LET ns == nums.xs
        hits == {p \in (DOMAIN ns) \X (DOMAIN ns) :
                    p[1] < p[2] /\ ns[p[1]].n + ns[p[2]].n = target.n}
    IN  IF hits = {} THEN VList(<<VInt(-1), VInt(-1)>>)
        ELSE LET p == CHOOSE p \in hits :
                         \A q \in hits : p[1] < q[1] \/ (p[1] = q[1] /\ p[2] <= q[2])
             IN  VList(<<VInt(p[1] - 1), VInt(p[2] - 1)>>)

\* what the function prints before it returns
Printed(code) == IF code.body \in {"forge", "forgefail"} THEN T_forged ELSE <<>>

(***************************************************************************)
(* What the child processes and the in-process exec do                     *)
(***************************************************************************)
\* the completed child process: its return code and its stdout
Exit(rc, out) == [rc |-> rc, out |-> out]

\* the generated program, once the submitted function is called with a and b
BodyExit(code, resultText) ==
    CASE code.body \in {"raise", "forgefail"} -> Exit(1, Printed(code))
      [] code.body = "exit0" -> Exit(0, Printed(code))
      [] OTHER -> Exit(0, Printed(code) \o SENTINEL \o resultText \o <<NL>>)

\* javac / g++ on the harness hx built around code: 0 when it compiles
CompilerExit(lang, code, hx) ==
    LET vals == ArgVals(lang, hx.args)
    IN  IF /\ code.compile = "ok"
           /\ hx.entry = code.name
           /\ \A i \in DOMAIN vals : vals[i] # NoLiteral
           /\ ParamsOK(lang, code.body, vals)
        THEN 0 ELSE 1

\* the run process never exits by itself
RunsForever(lang, code, hx) ==
    /\ code.compile = "ok" /\ code.body = "loop" /\ hx.entry = code.name
    /\ lang \in {"java", "cpp"} => CompilerExit(lang, code, hx) = 0

\* java -cp temp_dir TestRunner / the compiled executable; the sums of the
\* catalog's arguments stay far inside the 32 bits of the target's int
ExeExit(lang, code, hx) ==
    LET vals == ArgVals(lang, hx.args)
        r == Returned(code, ToInt(vals[1]), ToInt(vals[2]))
    IN  IF CompilerExit(lang, code, hx) # 0 THEN Exit(1, <<>>)
        ELSE IF code.body \in PairBodies
        THEN \* "RESULT:" + result for a List<Integer>: [0, 1]
             BodyExit(code, PyRepr(TwoSum(vals[1], vals[2])))
        ELSE BodyExit(code, IntToText(r))

\* node solution.js; a call with other than two numbers adds up to NaN, which
\* JSON.stringify prints as null
NodeExit(code, hx) ==
    LET xs == Items(JsonLoads(hx.args))
    IN  IF code.compile # "ok" \/ hx.entry # code.name THEN Exit(1, <<>>)
        ELSE IF code.body \in PairBodies
        THEN (IF PairArgs(xs) THEN BodyExit(code, JsonText(TwoSum(xs[1], xs[2]), <<",">>))
              ELSE Exit(1, <<>>))
        ELSE IF Len(xs) = 2 /\ xs[1].t = "Int" /\ xs[2].t = "Int"
        THEN BodyExit(code, JsonText(VInt(Returned(code, xs[1].n, xs[2].n)), <<",">>))
        ELSE BodyExit(code, T_null)

\* the outcome of an executor call: how control comes back to the caller
\* (kind), the exception class (err), and the tuple (value, stdout, stderr)
Outcome(kind, err, value, stdout, stderr) ==
    [kind |-> kind, err |-> err, value |-> value, stdout |-> stdout, stderr |-> stderr]
NoOutcome == Outcome("none", "", VNone, <<>>, "")
Returns(value, stdout, stderr) == Outcome("return", "", value, stdout, stderr)
Raises(err) == Outcome("raise", err, VNone, <<>>, "")

\* execute_python never exits by itself: the submitted function loops
PyRunsForever(code, problem_name) ==
    /\ code.compile = "ok" /\ code.body = "loop"
    /\ problem_name.t = "Str" /\ problem_name.s = code.name

\* execute_python, the body of the try and the except clause
\* nums.sort(): the list of ints in ascending order
RECURSIVE SortInts(_)
SortInts(ns) ==
    IF ns = <<>> THEN <<>>
    ELSE LET m == CHOOSE i \in DOMAIN ns : \A j \in DOMAIN ns : ns[i].n <= ns[j].n
         IN  <<ns[m]>> \o SortInts([i \in 1..(Len(ns) - 1) |-> IF i < m THEN ns[i] ELSE ns[i + 1]])

\* func(*test_args) is handed the objects of test_args themselves: what the
\* submission does to a list argument in place, it does to the caller's list
ArgsAfter(code, test_args, problem_name) ==
    IF /\ code.compile = "ok" /\ code.body = "sortpairs"
       /\ problem_name.t = "Str" /\ problem_name.s = code.name
       /\ PairArgs(Items(test_args))
    THEN VTuple(<<VList(SortInts(test_args.xs[1].xs)), test_args.xs[2]>>)
    ELSE test_args

\* exec(code, namespace) runs in the server process: the statements of the
\* submission act on the interpreter's own modules
Patches(code) == code.compile = "ok" /\ code.body = "patch"

\* sum([a, b]) under the builtins module as the process has it
PySum(env, a, b) == IF env = "patched" THEN 0 ELSE a + b

\* the return of execute_python; env is the builtins module of the process
\* when exec starts
PyOutcome(code, test_args, problem_name, env) ==
    LET xs == Items(test_args)
    IN  IF code.compile # "ok" THEN Returns(VNone, <<>>, "SyntaxError")
        ELSE IF ~(problem_name.t = "Str" /\ problem_name.s = code.name)
        THEN Returns(VNone, <<>>, "NameError")
        ELSE IF code.body \in PairBodies
        THEN (IF PairArgs(xs)
              THEN Returns(TwoSum(ArgsAfter(code, test_args, problem_name).xs[1], xs[2]),
                           <<>>, "")
              ELSE Returns(VNone, <<>>, "TypeError"))
        ELSE IF ~(Len(xs) = 2 /\ xs[1].t = "Int" /\ xs[2].t = "Int")
        THEN Returns(VNone, <<>>, "TypeError")
        ELSE IF code.body \in {"raise", "forgefail"}
        THEN Returns(VNone, Printed(code), "Exception")
        ELSE IF code.body = "builtin"
        THEN Returns(VInt(PySum(env, xs[1].n, xs[2].n)), Printed(code), "")
        ELSE Returns(VInt(Returned(code, xs[1].n, xs[2].n)), Printed(code), "")

(***************************************************************************)
(* State                                                                   *)
(***************************************************************************)
VARIABLES
    caller,      \* who is waiting for the executor: "none", "test", "submit"
    call,        \* the arguments of the executor call: lang, code, test_args, problem_name
    pc,          \* where the executor call stands
    temp_dir,    \* the directory mkdtemp gave this call, 0 when it has none
    dirs,        \* the temporary directories that exist on disk
    harness,     \* the harness source: the call's entry text and argument text
    phases,      \* the phases this call has been through, in order
    procs,       \* the child processes this call has spawned, in order
    elapsed,     \* seconds the running child process (or exec) has been running
    compile_rc,  \* compile_proc.returncode, -1 before the compiler has exited
    run_rc,      \* run_proc.returncode (proc.returncode), -1 before it has exited
    output,      \* run_proc.stdout
    pending,     \* the return or raise on its way through the finally clause
    outcome,     \* what the finished call handed to its caller
    builtins,    \* the builtins module of the server process: "pristine" or "patched"
    sreq,        \* submit_solution: the request being served
    si,          \* submit_solution: the loop index i
    ran,         \* submit_solution: the test numbers the executor was invoked for
    results,     \* submit_solution: results
    passed,      \* submit_solution: passed
    failed,      \* submit_solution: failed
    response,    \* submit_solution: the response of the last request
    ptext,       \* parser study: the text printed after the sentinel
    ppc,         \* parser study: which function has been applied to ptext
    parsed,      \* parser study: the value it gave
    mval,        \* marshaller study: the value handed to the marshaller
    dreq,        \* debug_solution: the request being served
    dargs,       \* debug_solution: args
    dpc,         \* debug_solution: where the handler stands
    hook,        \* the trace function sys.settrace holds: "None" or "tracer"
    trace,       \* debug_solution: trace
    truncated,   \* debug_solution: truncated
    dk,          \* debug_solution: how many trace events the run has raised so far
    dout,        \* debug_solution: stdout_capture
    dresp,       \* debug_solution: the response of the last request
    catalog,     \* the PROBLEMS dict of the server process as it stands
    tkind,       \* two threads: the handler each thread runs, "none" before it has one
    tpc,         \* two threads: how many steps of its handler each thread has taken
    target,      \* sys.stdout and sys.stderr: 0 the process's stream, t thread t's StringIO
    told,        \* two threads: _old_targets of each thread's redirections
    tcap,        \* two threads: the threads that have written to each StringIO, in order
    thook,       \* two threads: the trace function sys.settrace holds for each thread
    tout,        \* two threads: the captures each finished call has returned
    hname,       \* get_hints_for: problem_name
    hlang,       \* get_hints_for: language
    hpc,         \* get_hints_for: "off", "called" or "returned"
    hres         \* get_hints_for: what it returned

execVars == <<call, pc, temp_dir, dirs, harness, phases, procs, elapsed,
              compile_rc, run_rc, output, pending, outcome, builtins>>
submitVars == <<sreq, si, ran, results, passed, failed, response>>
parseVars == <<ptext, ppc, parsed, mval>>
debugVars == <<dreq, dargs, dpc, hook, trace, truncated, dk, dout, dresp>>
threadVars == <<tkind, tpc, target, told, tcap, thook, tout>>
hintVars == <<hname, hlang, hpc, hres>>
otherVars == <<parseVars, debugVars, catalog, threadVars, hintVars>>
callerVars == <<caller, submitVars, otherVars>>
vars == <<caller, execVars, submitVars, otherVars>>

COMPILE_TIMEOUT == 10
RUN_TIMEOUT == 5
\* how far the model counts the seconds of an exec that no timeout stops
MaxClock == 7

LANGUAGE_EXECUTORS == {"python", "javascript", "java", "cpp"}
Compiled == {"java", "cpp"}

NoHarness == [entry |-> <<>>, args |-> <<>>, written |-> FALSE]
NoCall == [lang |-> "none", code |-> SumCode, test_args |-> VNone, problem_name |-> VNone]
Call(lang, code, test_args, problem_name) ==
    [lang |-> lang, code |-> code, test_args |-> test_args, problem_name |-> problem_name]

\* the arguments of test_langs.py
TwoThree == VTuple(<<VInt(2), VInt(3)>>)

(***************************************************************************)
(* The executors                                                           *)
(***************************************************************************)
\* control enters the executor function
Enter(c) ==
    /\ call' = c
    /\ pc' = "start"
    /\ temp_dir' = 0
    /\ harness' = NoHarness
    /\ phases' = <<>>
    /\ procs' = <<>>
    /\ elapsed' = 0
    /\ compile_rc' = -1
    /\ run_rc' = -1
    /\ output' = <<>>
    /\ pending' = NoOutcome
    /\ outcome' = NoOutcome
    /\ UNCHANGED <<dirs, builtins>>

\* tempfile.mkdtemp(): a directory that did not exist
FreshDir == CHOOSE d \in 1..(Cardinality(dirs) + 1) : d \notin dirs

Mkdtemp ==
    /\ pc = "start" /\ call.lang \in {"javascript", "java", "cpp"}
    /\ temp_dir' = FreshDir
    /\ dirs' = dirs \cup {FreshDir}
    /\ phases' = Append(phases, "mkdtemp")
    /\ pc' = "try"
    /\ UNCHANGED <<callerVars, builtins>>
    /\ UNCHANGED <<call, harness, procs, elapsed, compile_rc, run_rc, output, pending, outcome>>

\* java_args, cpp_args, json.dumps(test_args)
RenderArgs(lang, test_args) ==
    LET xs == Items(test_args)
    IN  CASE lang = "java" -> Join(<<",", SP>>, [i \in DOMAIN xs |-> python_to_java(xs[i])])
          [] lang = "cpp" -> Join(<<",", SP>>, [i \in DOMAIN xs |-> python_to_cpp(xs[i])])
          [] lang = "javascript" -> JsonDumps(test_args)

Render ==
    /\ pc = "try"
    /\ harness' = [entry |-> PyStr(call.problem_name),
                   args |-> RenderArgs(call.lang, call.test_args),
                   written |-> FALSE]
    /\ phases' = Append(phases, "render")
    /\ pc' = "rendered"
    /\ UNCHANGED <<callerVars, builtins>>
    /\ UNCHANGED <<call, temp_dir, dirs, procs, elapsed, compile_rc, run_rc, output,
                   pending, outcome>>

\* with open(file, 'w') as f: f.write(test_code)
WriteHarness ==
    /\ pc = "rendered"
    /\ harness' = [harness EXCEPT !.written = TRUE]
    /\ phases' = Append(phases, "write")
    /\ pc' = "written"
    /\ UNCHANGED <<callerVars, builtins>>
    /\ UNCHANGED <<call, temp_dir, dirs, procs, elapsed, compile_rc, run_rc, output,
                   pending, outcome>>

\* subprocess.run(['javac', ...], timeout=10) starts the compiler
CompileSpawn ==
    /\ pc = "written" /\ call.lang \in Compiled
    /\ procs' = Append(procs, "compile")
    /\ phases' = Append(phases, "compile")
    /\ elapsed' = 0
    /\ pc' = "compiling"
    /\ UNCHANGED <<callerVars, builtins>>
    /\ UNCHANGED <<call, temp_dir, dirs, harness, compile_rc, run_rc, output, pending, outcome>>

CompileTick ==
    /\ pc = "compiling" /\ call.code.compile = "hang" /\ elapsed < COMPILE_TIMEOUT
    /\ elapsed' = elapsed + 1
    /\ UNCHANGED <<callerVars, builtins>>
    /\ UNCHANGED <<call, pc, temp_dir, dirs, harness, phases, procs, compile_rc, run_rc,
                   output, pending, outcome>>

\* subprocess.run kills the compiler and raises TimeoutExpired
CompileTimeout ==
    /\ pc = "compiling" /\ call.code.compile = "hang" /\ elapsed = COMPILE_TIMEOUT
    /\ pending' = Raises("TimeoutExpired")
    /\ pc' = "finally"
    /\ UNCHANGED <<callerVars, builtins>>
    /\ UNCHANGED <<call, temp_dir, dirs, harness, phases, procs, elapsed, compile_rc, run_rc,
                   output, outcome>>

\* CompileFailed were the return code of the compiler not looked at
CompileFailed_Never(rc) == FALSE

\* if compile_proc.returncode != 0
CompileFailed(rc) == rc # 0

CompileExit ==
    /\ pc = "compiling" /\ call.code.compile # "hang"
    /\ LET rc == CompilerExit(call.lang, call.code, harness)
       IN  /\ compile_rc' = rc
           /\ IF CompileFailed(rc)
              THEN pending' = Raises("CompileError") /\ pc' = "finally"
              ELSE pending' = pending /\ pc' = "compiled"
    /\ UNCHANGED <<callerVars, builtins>>
    /\ UNCHANGED <<call, temp_dir, dirs, harness, phases, procs, elapsed, run_rc, output,
                   outcome>>

\* subprocess.run([...], timeout=5) starts the run process
RunSpawn ==
    /\ \/ pc = "compiled" /\ call.lang \in Compiled
       \/ pc = "written" /\ call.lang = "javascript"
    /\ procs' = Append(procs, "run")
    /\ phases' = Append(phases, "run")
    /\ elapsed' = 0
    /\ pc' = "running"
    /\ UNCHANGED <<callerVars, builtins>>
    /\ UNCHANGED <<call, temp_dir, dirs, harness, compile_rc, run_rc, output, pending, outcome>>

RunTick ==
    /\ pc = "running" /\ call.lang # "python"
    /\ RunsForever(call.lang, call.code, harness) /\ elapsed < RUN_TIMEOUT
    /\ elapsed' = elapsed + 1
    /\ UNCHANGED <<callerVars, builtins>>
    /\ UNCHANGED <<call, pc, temp_dir, dirs, harness, phases, procs, compile_rc, run_rc,
                   output, pending, outcome>>

\* subprocess.run kills the run process and raises TimeoutExpired
RunTimeout ==
    /\ pc = "running" /\ call.lang # "python"
    /\ RunsForever(call.lang, call.code, harness) /\ elapsed = RUN_TIMEOUT
    /\ pending' = Raises("TimeoutExpired")
    /\ pc' = "finally"
    /\ UNCHANGED <<callerVars, builtins>>
    /\ UNCHANGED <<call, temp_dir, dirs, harness, phases, procs, elapsed, compile_rc, run_rc,
                   output, outcome>>

\* RunFailed were the return code of the run process not looked at
RunFailed_Never(rc) == FALSE

\* if run_proc.returncode != 0
RunFailed(rc) == rc # 0

RunExit ==
    /\ pc = "running" /\ call.lang # "python"
    /\ ~RunsForever(call.lang, call.code, harness)
    /\ LET x == IF call.lang = "javascript" THEN NodeExit(call.code, harness)
                ELSE ExeExit(call.lang, call.code, harness)
       IN  /\ run_rc' = x.rc
           /\ output' = x.out
           /\ IF RunFailed(x.rc)
              THEN pending' = Raises("RuntimeError") /\ pc' = "finally"
              ELSE pending' = pending /\ pc' = "ran"
    /\ UNCHANGED <<callerVars, builtins>>
    /\ UNCHANGED <<call, temp_dir, dirs, harness, phases, procs, elapsed, compile_rc, outcome>>

\* the for loop over output.split('\n')
ParseOutput(lang, out) ==
    CASE lang = "java" -> JavaParse(out)
      [] lang = "cpp" -> CppParse(out)
      [] lang = "javascript" -> JsParse(out)

Parse ==
    /\ pc = "ran"
    /\ LET v == ParseOutput(call.lang, output)
       IN  pending' = IF v = NotFound THEN Raises("ResultNotFound")
                      ELSE IF v = JSONDecodeError THEN Raises("JSONDecodeError")
                      ELSE Returns(v, output, "")
    /\ phases' = Append(phases, "parse")
    /\ pc' = "finally"
    /\ UNCHANGED <<callerVars, builtins>>
    /\ UNCHANGED <<call, temp_dir, dirs, harness, procs, elapsed, compile_rc, run_rc, output,
                   outcome>>

\* Rmtree were the directory removed before the return only, not in a finally
Rmtree_OnReturnOnly(ds, d, p) == IF p.kind = "return" THEN ds \ {d} ELSE ds

\* shutil.rmtree(temp_dir, ignore_errors=True), reached with p on its way out
Rmtree(ds, d, p) == ds \ {d}

\* the finally clause, then the return or the raise
Finally ==
    /\ pc = "finally"
    /\ dirs' = Rmtree(dirs, temp_dir, pending)
    /\ outcome' = pending
    /\ pc' = "done"
    /\ UNCHANGED <<callerVars, builtins>>
    /\ UNCHANGED <<call, temp_dir, harness, phases, procs, elapsed, compile_rc, run_rc,
                   output, pending>>

\* execute_python: exec(code, namespace) and func(*test_args) in this process
PyStart ==
    /\ pc = "start" /\ call.lang = "python"
    /\ phases' = Append(phases, "run")
    /\ elapsed' = 0
    /\ pc' = "running"
    /\ UNCHANGED <<callerVars, builtins>>
    /\ UNCHANGED <<call, temp_dir, dirs, harness, procs, compile_rc, run_rc, output,
                   pending, outcome>>

\* nothing bounds the time the submitted function takes: the loop goes on, and
\* past MaxClock the clock is followed only as "later than RUN_TIMEOUT"
PyTick ==
    /\ pc = "running" /\ call.lang = "python"
    /\ PyRunsForever(call.code, call.problem_name)
    /\ elapsed' = IF elapsed < MaxClock THEN elapsed + 1 ELSE RUN_TIMEOUT + 1
    /\ UNCHANGED <<callerVars, builtins>>
    /\ UNCHANGED <<call, pc, temp_dir, dirs, harness, phases, procs, compile_rc, run_rc,
                   output, pending, outcome>>

PyFinish ==
    /\ pc = "running" /\ call.lang = "python"
    /\ ~PyRunsForever(call.code, call.problem_name)
    /\ outcome' = PyOutcome(call.code, call.test_args, call.problem_name, builtins)
    /\ builtins' = IF Patches(call.code) THEN "patched" ELSE builtins
    /\ catalog' = IF caller = "submit"
                  THEN [catalog EXCEPT ![sreq.problem][si + 1].args =
                           ArgsAfter(call.code, call.test_args, call.problem_name)]
                  ELSE catalog
    /\ output' = outcome'.stdout
    /\ pc' = "done"
    /\ UNCHANGED <<caller, submitVars, parseVars, debugVars, threadVars, hintVars>>
    /\ UNCHANGED <<call, temp_dir, dirs, harness, phases, procs, elapsed, compile_rc, run_rc,
                   pending>>

(***************************************************************************)
(* submit_solution                                                         *)
(***************************************************************************)
Test(args, expected) == [args |-> args, expected |-> expected]

\* a list of ints
Ints(ns) == VList([i \in DOMAIN ns |-> VInt(ns[i])])

\* PROBLEMS: the catalog entries of summation, second_largest and two_sum
\* and their tests
PROBLEMS ==
    [second_largest |-> << Test(VTuple(<<Ints(<<2, 3, 1>>)>>), VInt(2)),
                           Test(VTuple(<<Ints(<<5, 5, 5>>)>>), VNone),
                           Test(VTuple(<<Ints(<<-1, -2, -3>>)>>), VInt(-2)) >>,
     summation |-> << Test(VTuple(<<VInt(2), VInt(3)>>), VInt(5)),
                      Test(VTuple(<<VInt(-1), VInt(1)>>), VInt(0)),
                      Test(VTuple(<<VInt(0), VInt(0)>>), VInt(0)) >>,
     two_sum |-> << Test(VTuple(<<Ints(<<2, 7, 11, 15>>), VInt(9)>>), Ints(<<0, 1>>)),
                    Test(VTuple(<<Ints(<<3, 2, 4>>), VInt(6)>>), Ints(<<1, 2>>)),
                    Test(VTuple(<<Ints(<<3, 3>>), VInt(6)>>), Ints(<<0, 1>>)),
                    Test(VTuple(<<Ints(<<1, 2, 3>>), VInt(10)>>), Ints(<<-1, -1>>)) >>]

\* request.json: body is whether the request has a JSON body; language is
\* "absent" when the body has no 'language' key
Request(body, problem, language, code) ==
    [body |-> body, problem |-> problem, language |-> language, code |-> code]
NoRequest == Request(FALSE, "absent", "absent", SumCode)

\* data.get('language', 'python')
DefaultLanguage(language) == IF language = "absent" THEN "python" ELSE language
LanguageOf(req) == DefaultLanguage(req.language)

Requests ==
    {NoRequest}
    \cup UNION {{Request(TRUE, p, l, c) : p \in {"summation", "second_largest", "two_sum", "nope"},
                                          c \in Submissions(DefaultLanguage(l))} :
                l \in LANGUAGE_EXECUTORS \cup {"ruby", "absent"}}

\* func_name: the problem's name (none of the problems here is palindrome)
FuncName(problem) ==
    VStr(CASE problem = "two_sum" -> N_two_sum
           [] problem = "second_largest" -> N_second_largest
           [] OTHER -> N_summation)

Response(status, error, p, f, total, rs) ==
    [status |-> status, error |-> error, passed |-> p, failed |-> f, total |-> total,
     results |-> rs]
NoResponse == Response(0, "", 0, 0, 0, <<>>)
ErrorResponse(status, error) == Response(status, error, 0, 0, 0, <<>>)

\* Rejection were the language not checked
Rejection_NoLanguageCheck(req) ==
    IF ~req.body THEN "Invalid JSON data"
    ELSE IF req.problem \notin DOMAIN PROBLEMS THEN "Invalid problem"
    ELSE ""

\* the checks before the loop: the error the request is answered with, "" when
\* it passes them all
Rejection(req) ==
    IF ~req.body THEN "Invalid JSON data"
    ELSE IF req.problem \notin DOMAIN PROBLEMS THEN "Invalid problem"
    ELSE IF LanguageOf(req) \notin LANGUAGE_EXECUTORS THEN "Unsupported language"
    ELSE ""

\* the locals of the previous executor call are gone; the directories on disk
\* are not
ExecReset ==
    /\ call' = NoCall
    /\ pc' = "idle"
    /\ temp_dir' = 0
    /\ harness' = NoHarness
    /\ phases' = <<>>
    /\ procs' = <<>>
    /\ elapsed' = 0
    /\ compile_rc' = -1
    /\ run_rc' = -1
    /\ output' = <<>>
    /\ pending' = NoOutcome
    /\ outcome' = NoOutcome
    /\ UNCHANGED <<dirs, builtins>>

\* the request arrives; a request that fails a check is answered at once, and
\* executor = LANGUAGE_EXECUTORS[language] raises KeyError for a missing key
SubmitRecv ==
    /\ caller = "none"
    /\ \E req \in Requests :
          /\ sreq' = req
          /\ si' = 0
          /\ ran' = <<>>
          /\ results' = <<>>
          /\ passed' = 0
          /\ failed' = 0
          /\ IF Rejection(req) # ""
             THEN /\ response' = ErrorResponse(400, Rejection(req))
                  /\ caller' = "none"
             ELSE IF LanguageOf(req) \notin LANGUAGE_EXECUTORS
             THEN /\ response' = ErrorResponse(500, "KeyError")
                  /\ caller' = "none"
             ELSE /\ response' = NoResponse
                  /\ caller' = "submit"
    /\ ExecReset
    /\ UNCHANGED otherVars

Tests == catalog[sreq.problem]

\* executor(code, test['args'], func_name) for test i + 1
SubmitCall ==
    /\ caller = "submit" /\ pc = "idle" /\ si < Len(Tests)
    /\ Enter(Call(LanguageOf(sreq), sreq.code, Tests[si + 1].args, FuncName(sreq.problem)))
    /\ ran' = Append(ran, si + 1)
    /\ UNCHANGED <<caller, sreq, si, results, passed, failed, response, otherVars>>

\* test_result after the try statement of the loop body
TestResult(i, test, o) ==
    [test_num |-> i + 1,
     actual |-> IF o.kind = "return" THEN PyStr(o.value) ELSE <<>>,
     passed |-> o.kind = "return" /\ PyEq(o.value, test.expected),
     error |-> IF o.kind = "raise" THEN o.err ELSE "",
     stdout |-> o.stdout,
     stderr |-> o.stderr]

\* NextTest were a failed test to end the loop
NextTest_StopOnFailure(i, n, tr) == IF tr.passed THEN i + 1 ELSE n

\* the index the loop goes on with after test i, of n tests
NextTest(i, n, tr) == i + 1

\* a counter were it incremented whatever the test's verdict
Counted_Always(n, hit) == n + 1

\* passed += 1 / failed += 1: a counter after a test that is, or is not, its own
Counted(n, hit) == IF hit THEN n + 1 ELSE n

\* the executor has returned or raised: the rest of the loop body
SubmitRecord ==
    /\ caller = "submit" /\ pc = "done"
    /\ LET tr == TestResult(si, Tests[si + 1], outcome)
       IN  /\ results' = Append(results, tr)
           /\ passed' = Counted(passed, tr.passed)
           /\ failed' = Counted(failed, ~tr.passed)
           /\ si' = NextTest(si, Len(Tests), tr)
    /\ pc' = "idle"
    /\ UNCHANGED <<caller, call, temp_dir, dirs, harness, phases, procs, elapsed, compile_rc,
                   run_rc, output, pending, outcome, builtins, sreq, ran, response,
                   otherVars>>

\* return jsonify({...}) after the loop
SubmitRespond ==
    /\ caller = "submit" /\ pc = "idle" /\ si >= Len(Tests)
    /\ response' = Response(200, "", passed, failed, Len(Tests), results)
    /\ caller' = "none"
    /\ UNCHANGED <<execVars, sreq, si, ran, results, passed, failed, otherVars>>

(***************************************************************************)
(* test_langs.py: the executors called directly                            *)
(***************************************************************************)
\* execute_x(code, 'summation', (2, 3)), the way test_langs.py writes the call:
\* the second positional parameter is test_args, the third problem_name
TestLangsCall(lang, code) == Call(lang, code, VStr(N_summation), TwoThree)

\* execute_x(code, (2, 3), 'summation'), the order of the executors' signature
SignatureCall(lang, code) == Call(lang, code, TwoThree, VStr(N_summation))

\* the locals of the previous submit_solution request are gone
SubmitReset ==
    /\ sreq' = NoRequest
    /\ si' = 0
    /\ ran' = <<>>
    /\ results' = <<>>
    /\ passed' = 0
    /\ failed' = 0
    /\ response' = NoResponse

TestCall ==
    /\ caller = "none"
    /\ \E lang \in LANGUAGE_EXECUTORS :
          \E code \in Submissions(lang) :
             \/ Enter(TestLangsCall(lang, code))
             \/ Enter(SignatureCall(lang, code))
    /\ caller' = "test"
    /\ SubmitReset
    /\ UNCHANGED otherVars

TestReturn ==
    /\ caller = "test" /\ pc = "done"
    /\ caller' = "none"
    /\ pc' = "idle"
    /\ UNCHANGED <<call, temp_dir, dirs, harness, phases, procs, elapsed, compile_rc, run_rc,
                   output, pending, outcome, builtins, submitVars, otherVars>>

(***************************************************************************)
(* debug_solution: the submitted function run under a trace function       *)
(***************************************************************************)
MAX_LEN == 200
DEFAULT_MAX_STEPS == 500

\* the one character U+2026 that _safe_repr puts after a cut preview
ELLIPSIS == "..."

\* SafeRepr were the preview not cut
SafeRepr_Unbounded(obj) == PyRepr(obj)

\* _safe_repr(obj); every value here has a repr
SafeRepr(obj) ==
    IF Len(PyRepr(obj)) > MAX_LEN THEN SubSeq(PyRepr(obj), 1, MAX_LEN) \o <<ELLIPSIS>>
    ELSE PyRepr(obj)

\* a list whose repr is longer than MAX_LEN: BigItems strs of BigItemLen
\* characters, ['aaaaaaaaaaaaaaaaaaaa', ...]
BigItemLen == 20
BigItems == 10

\* the submissions debug_solution is given, by the body of the function:
\*   sum    1 def summation(a, b):      acc   1 def summation(a, b):
\*          2     return a + b                2     acc = []
\*   raise  1 def summation(a, b):            3     for i in range(b):
\*          2     print('x')                  4         acc.append(a)
\*          3     raise ValueError()          5     return acc
\*   exit   1 def summation(a, b):      big   1 def summation(a, b):
\*          2     raise SystemExit()          2     big = []
\*                                            3     big.extend(['a' * 20] * 10)
\*                                            4     return a + b
DebugBodies == {"sum", "acc", "raise", "exit", "big"}

CodeLines(body) ==
    CASE body = "sum" -> <<"def summation(a, b):", "    return a + b">>
      [] body = "acc" -> <<"def summation(a, b):", "    acc = []", "    for i in range(b):",
                           "        acc.append(a)", "    return acc">>
      [] body = "raise" -> <<"def summation(a, b):", "    print('x')", "    raise ValueError()">>
      [] body = "exit" -> <<"def summation(a, b):", "    raise SystemExit()">>
      [] body = "big" -> <<"def summation(a, b):", "    big = []",
                           "    big.extend(['a' * 20] * 10)", "    return a + b">>
      [] OTHER -> <<>>

DebugCodes ==
    {Code("ok", N_summation, b) : b \in DebugBodies}
    \cup {Code("ok", N_other, "sum"), Code("error", N_summation, "sum")}

USER_FILE == "<string>"
LIB_FILE == "contextlib.py"

\* a trace event as the interpreter hands it to the trace function: the
\* frame's file, line and locals, the event, its arg, and what the run has
\* written to stdout when the event is raised
Local(k, v) == [k |-> k, v |-> v]
Ev(file, event, line, locals, arg, out) ==
    [file |-> file, event |-> event, line |-> line, locals |-> locals, arg |-> arg, out |-> out]

\* redirect_stdout.__enter__ and __exit__ run under the trace function too
LibEvent(out) == Ev(LIB_FILE, "call", 1, <<>>, VNone, out)

\* a list of n items x
Repeat(x, n) == VList([i \in 1..n |-> x])

\* the events of body "acc": call, line 2, lines 3 and 4 once per iteration,
\* line 3 again when the loop ends, line 5, return
AccEvents(a, b) ==
    LET n == IF b.n > 0 THEN b.n ELSE 0
        Locals(len, i) ==
            <<Local("a", a), Local("b", b), Local("acc", Repeat(a, len))>>
            \o (IF i >= 0 THEN <<Local("i", VInt(i))>> ELSE <<>>)
        At(j) ==
            IF j = 1 THEN Ev(USER_FILE, "call", 1, <<Local("a", a), Local("b", b)>>, VNone, <<>>)
            ELSE IF j = 2
            THEN Ev(USER_FILE, "line", 2, <<Local("a", a), Local("b", b)>>, VNone, <<>>)
            ELSE IF j <= 2 * n + 2
            THEN LET m == j - 3
                     it == m \div 2
                 IN  IF m % 2 = 0 THEN Ev(USER_FILE, "line", 3, Locals(it, it - 1), VNone, <<>>)
                     ELSE Ev(USER_FILE, "line", 4, Locals(it, it), VNone, <<>>)
            ELSE IF j = 2 * n + 3 THEN Ev(USER_FILE, "line", 3, Locals(n, n - 1), VNone, <<>>)
            ELSE IF j = 2 * n + 4 THEN Ev(USER_FILE, "line", 5, Locals(n, n - 1), VNone, <<>>)
            ELSE Ev(USER_FILE, "return", 5, Locals(n, n - 1), Repeat(a, n), <<>>)
    IN  [j \in 1..(2 * n + 5) |-> At(j)]

\* the list that body "big" makes of its local
BigList == Repeat(VStr([i \in 1..BigItemLen |-> "a"]), BigItems)

\* the events of a function that raises at line k after the events before:
\* "exception", then "return" with arg None as the frame is left
Raising(before, k, locals, out) ==
    before \o <<Ev(USER_FILE, "exception", k, locals, VNone, out),
                Ev(USER_FILE, "return", k, locals, VNone, out)>>

\* the events of user_func(*args) in the submitted code, in execution order;
\* a call with the wrong number of arguments raises before any frame exists
UserEvents(code, args) ==
    IF Len(args) # 2 THEN <<>>
    ELSE
    LET a == args[1]
        b == args[2]
        L == <<Local("a", a), Local("b", b)>>
        called == Ev(USER_FILE, "call", 1, L, VNone, <<>>)
        line2 == Ev(USER_FILE, "line", 2, L, VNone, <<>>)
    IN  CASE code.body = "sum" ->
               IF a.t = "Int" /\ b.t = "Int"
               THEN <<called, line2, Ev(USER_FILE, "return", 2, L, VInt(a.n + b.n), <<>>)>>
               ELSE Raising(<<called, line2>>, 2, L, <<>>)
          [] code.body = "acc" ->
               IF b.t = "Int" THEN AccEvents(a, b)
               ELSE Raising(<<called, line2,
                              Ev(USER_FILE, "line", 3, Append(L, Local("acc", VList(<<>>))),
                                 VNone, <<>>)>>,
                            3, Append(L, Local("acc", VList(<<>>))), <<>>)
          [] code.body = "raise" ->
               Raising(<<called, line2, Ev(USER_FILE, "line", 3, L, VNone, <<"x", NL>>)>>,
                       3, L, <<"x", NL>>)
          [] code.body = "exit" -> Raising(<<called, line2>>, 2, L, <<>>)
          [] code.body = "big" ->
               LET B == Append(L, Local("big", BigList))
                   line3 == Ev(USER_FILE, "line", 3, Append(L, Local("big", VList(<<>>))),
                               VNone, <<>>)
                   line4 == Ev(USER_FILE, "line", 4, B, VNone, <<>>)
               IN  IF a.t = "Int" /\ b.t = "Int"
                   THEN <<called, line2, line3, line4,
                          Ev(USER_FILE, "return", 4, B, VInt(a.n + b.n), <<>>)>>
                   ELSE Raising(<<called, line2, line3, line4>>, 4, B, <<>>)
          [] OTHER -> <<>>

\* how user_func(*args) ends: "return", or the class of what it raises
Ending(code, args) ==
    IF Len(args) # 2 THEN "TypeError"
    ELSE CASE code.body \in {"sum", "big"} ->
                IF args[1].t = "Int" /\ args[2].t = "Int" THEN "return" ELSE "TypeError"
           [] code.body = "acc" -> IF args[2].t = "Int" THEN "return" ELSE "TypeError"
           [] code.body = "raise" -> "ValueError"
           [] code.body = "exit" -> "SystemExit"
           [] OTHER -> "return"

\* the classes that `except Exception` catches
ExceptionClasses == {"TypeError", "ValueError", "SyntaxError"}

\* retval of a call that returns
RetVal(code, args) ==
    IF code.body \in {"sum", "big"} THEN VInt(args[1].n + args[2].n)
    ELSE Repeat(args[1], IF args[2].n > 0 THEN args[2].n ELSE 0)

\* everything the interpreter raises between sys.settrace(tracer) and the
\* end of the with block: __enter__ of the redirections, the call, __exit__
RunEvents(code, args) ==
    LET user == UserEvents(code, args)
        out == IF user = <<>> THEN <<>> ELSE user[Len(user)].out
    IN  <<LibEvent(<<>>)>> \o user \o <<LibEvent(out)>>

\* a key the request's JSON body does not have
Absent == Val("Absent", 0, 0, <<>>, <<>>)

\* request.json of /api/debug
DebugRequest(problem, code, testIndex, customArgsJson, breakpoints, maxSteps) ==
    [problem |-> problem, code |-> code, testIndex |-> testIndex,
     customArgsJson |-> customArgsJson, breakpoints |-> breakpoints, maxSteps |-> maxSteps]
NoDebugRequest == DebugRequest("absent", SumCode, Absent, Absent, <<>>, Absent)

\* customArgsJson texts: ["a", 1] and [1, and 5
CustomTexts == {<<"[", DQ, "a", DQ, ",", SP, "1", "]">>, <<"[", "1", ",">>, <<"5">>}

BreakpointLists ==
    {<<>>, <<VInt(3)>>, <<VStr(<<"4">>), VStr(<<"x">>), VFloat(<<15, 1>>)>>, <<VStr(<<"x">>)>>}

MaxStepsValues == {Absent, VInt(-1), VInt(0), VInt(2), VInt(3), VInt(5)}

DebugRequests ==
    {DebugRequest(p, c, i, j, bs, m) :
        p \in {"summation", "nope"}, c \in DebugCodes,
        i \in {Absent, VInt(1), VInt(-1), VInt(3)},
        j \in {Absent, VStr(<<>>)} \cup {VStr(s) : s \in CustomTexts},
        bs \in BreakpointLists, m \in MaxStepsValues}

\* the response of debug_solution; kind "propagated" is no response at all:
\* the handler is left by an exception it does not catch
DebugResponse(kind, status, error, tr, trunc, stdout, stderr, ret, argsUsed) ==
    [kind |-> kind, status |-> status, error |-> error, trace |-> tr, truncated |-> trunc,
     stdout |-> stdout, stderr |-> stderr, ret |-> ret, argsUsed |-> argsUsed]
NoDebugResponse == DebugResponse("none", 0, "", <<>>, FALSE, <<>>, <<>>, <<>>, <<>>)
DebugError(error) == DebugResponse("error", 400, error, <<>>, FALSE, <<>>, <<>>, <<>>, <<>>)
Propagated(class) == DebugResponse("propagated", 0, class, <<>>, FALSE, <<>>, <<>>, <<>>, <<>>)

\* "Determine args": the args, or the error of the 400 response
ArgsOK(args) == [ok |-> TRUE, args |-> args, error |-> ""]
ArgsError(error) == [ok |-> FALSE, args |-> VNone, error |-> error]
DetermineArgs(data) ==
    LET tests == catalog[data.problem]
        i == data.testIndex.n
        loaded == JsonLoads(data.customArgsJson.s)
    IN  IF data.testIndex.t \in {"Int", "Bool"}
        THEN IF i >= 0 /\ i < Len(tests) THEN ArgsOK(tests[i + 1].args)
             ELSE IF i < 0 /\ -i <= Len(tests) THEN ArgsOK(tests[Len(tests) + i + 1].args)
             ELSE ArgsError("Invalid testIndex")
        ELSE IF data.customArgsJson.t = "Str" /\ data.customArgsJson.s # <<>>
        THEN IF loaded = JSONDecodeError THEN ArgsError("Invalid JSON for customArgsJson")
             ELSE IF loaded.t # "List" THEN ArgsError("customArgsJson must be a JSON array")
             ELSE ArgsOK(VTuple(loaded.xs))
        ELSE ArgsOK(tests[1].args)

\* isinstance(b, int) or str(b).isdigit()
IsBreakpoint(b) ==
    \/ b.t \in {"Int", "Bool"}
    \/ b.t = "Str" /\ b.s # <<>> /\ \A i \in DOMAIN b.s : IsDigit(b.s[i])

\* breakpoints: set(int(b) for b in data.get('breakpoints', []) if ...)
Breakpoints(data) ==
    {IF data.breakpoints[i].t = "Str" THEN PyIntVal(data.breakpoints[i].s)
     ELSE data.breakpoints[i].n :
        i \in {j \in DOMAIN data.breakpoints : IsBreakpoint(data.breakpoints[j])}}

\* max_steps: int(data.get('maxSteps', 500))
MaxSteps(data) == IF data.maxSteps = Absent THEN DEFAULT_MAX_STEPS ELSE data.maxSteps.n

\* record_this were the breakpoints never consulted
RecordThis_Always(breakpoints, line_no) == TRUE

\* record_this
RecordThis(breakpoints, line_no) == breakpoints = {} \/ line_no \in breakpoints

\* locals_snapshot
LocalsSnapshot(locals) == [i \in DOMAIN locals |-> Local(locals[i].k, SafeRepr(locals[i].v))]

\* step: the record of an event; ret is step['return'], which only the
\* record of a return event has
Step(data, ev) ==
    [event |-> ev.event, line |-> ev.line,
     code |-> IF 1 <= ev.line /\ ev.line <= Len(CodeLines(data.code.body))
              THEN CodeLines(data.code.body)[ev.line] ELSE "",
     locals |-> LocalsSnapshot(ev.locals),
     hasReturn |-> ev.event = "return",
     ret |-> IF ev.event = "return" THEN SafeRepr(ev.arg) ELSE <<>>]

\* tracer(frame, event, arg): the trace, the flag and the hook it leaves
Traced(tr, trunc, h) == [trace |-> tr, truncated |-> trunc, hook |-> h]
tracer(data, ev, tr, trunc) ==
    IF ev.file # USER_FILE THEN Traced(tr, trunc, "tracer")
    ELSE IF ev.event \in {"call", "line", "return"} /\ RecordThis(Breakpoints(data), ev.line)
    THEN IF Len(tr) + 1 >= MaxSteps(data)
         THEN Traced(Append(tr, Step(data, ev)), TRUE, "None")
         ELSE Traced(Append(tr, Step(data, ev)), trunc, "tracer")
    ELSE Traced(tr, trunc, "tracer")

\* the hook were the finally clause missing
FinallyHook_Keep(h) == h

\* finally: sys.settrace(None)
FinallyHook(h) == "None"

DebugIdle ==
    /\ dreq = NoDebugRequest /\ dargs = VNone /\ dpc = "idle" /\ hook = "None"
    /\ trace = <<>> /\ truncated = FALSE /\ dk = 0 /\ dout = <<>> /\ dresp = NoDebugResponse

(***************************************************************************)
(* Two requests served by two threads of the server process                *)
(***************************************************************************)
Threads == {1, 2}
Streams == {"stdout", "stderr"}

\* the steps of a handler that runs a submission which writes a line to
\* stdout and a line to stderr: `with redirect_stdout(stdout_capture),
\* redirect_stderr(stderr_capture)` enters the two redirections in order
\* (__enter__ appends getattr(sys, stream) to _old_targets, then sets the
\* attribute to the StringIO) and leaves them in reverse order (__exit__
\* sets the attribute to _old_targets.pop()); debug_solution has
\* sys.settrace(tracer) before the with block and sys.settrace(None) in its
\* finally clause
WithSteps ==
    <<<<"save", "stdout">>, <<"set", "stdout">>, <<"save", "stderr">>, <<"set", "stderr">>,
      <<"write", "stdout">>, <<"write", "stderr">>,
      <<"exit", "stderr">>, <<"exit", "stdout">>>>
Steps(kind) ==
    IF kind = "debug_solution"
    THEN <<<<"settrace", "">>>> \o WithSteps \o <<<<"finally", "">>, <<"return", "">>>>
    ELSE WithSteps \o <<<<"return", "">>>>

\* the step thread t is about to take
At(t) ==
    IF tkind[t] # "none" /\ tpc[t] < Len(Steps(tkind[t])) THEN Steps(tkind[t])[tpc[t] + 1]
    ELSE <<"none", "">>
Finished(t) == tkind[t] # "none" /\ tpc[t] = Len(Steps(tkind[t]))
Advance(t) == tpc' = [tpc EXCEPT ![t] = @ + 1]

NoCaptures == [s \in Streams |-> <<>>]

ThreadsIdle ==
    /\ tkind = [t \in Threads |-> "none"]
    /\ tpc = [t \in Threads |-> 0]
    /\ target = [s \in Streams |-> 0]
    /\ told = [t \in Threads |-> [s \in Streams |-> 0]]
    /\ tcap = [t \in Threads |-> NoCaptures]
    /\ thook = [t \in Threads |-> "None"]
    /\ tout = [t \in Threads |-> NoCaptures]

(***************************************************************************)
(* get_hints_for                                                           *)
(***************************************************************************)
\* what get_hints_for can return: a dict with the keys 'bullets' and
\* 'pseudocode', or the list or the str that is the value of such a key
HintDict(bullets, pseudocode) == [t |-> "dict", bullets |-> bullets, pseudocode |-> pseudocode]
HintList(bullets) == [t |-> "list", bullets |-> bullets, pseudocode |-> ""]
HintStr(pseudocode) == [t |-> "str", bullets |-> <<>>, pseudocode |-> pseudocode]

\* an entry of HINTS keyed by language, and a flat legacy entry; the texts
\* of the hints are stood for by the names of the problem and the language
PerLanguage(name) ==
    [l \in {"python", "javascript", "java", "cpp"} |-> HintDict(<<name, l>>, l)]
Legacy(name) == [bullets |-> HintList(<<name>>), pseudocode |-> HintStr(name)]

\* HINTS: five of its entries keyed by language and three of its flat ones
HINTS ==
    [summation |-> PerLanguage("summation"),
     palindrome |-> PerLanguage("palindrome"),
     second_largest |-> PerLanguage("second_largest"),
     two_sum |-> PerLanguage("two_sum"),
     climb_stairs |-> PerLanguage("climb_stairs"),
     two_sum_sorted |-> Legacy("two_sum_sorted"),
     binary_search |-> Legacy("binary_search"),
     coin_change |-> Legacy("coin_change")]

DefaultHints == HintDict(<<"No hints available yet.">>, "")

\* entry.get(key, default[key]) for the keys of a flat entry
LegacyBullets(entry) ==
    IF "bullets" \in DOMAIN entry THEN entry["bullets"].bullets ELSE DefaultHints.bullets
LegacyPseudocode(entry) ==
    IF "pseudocode" \in DOMAIN entry THEN entry["pseudocode"].pseudocode
    ELSE DefaultHints.pseudocode

\* get_hints_for(problem_name, language)
get_hints_for(problem_name, language) ==
    IF problem_name \notin DOMAIN HINTS THEN DefaultHints
    ELSE LET entry == HINTS[problem_name]
         IN  IF language \in DOMAIN entry THEN entry[language]
             ELSE IF "bullets" \in DOMAIN entry \/ "pseudocode" \in DOMAIN entry
             THEN HintDict(LegacyBullets(entry), LegacyPseudocode(entry))
             ELSE IF "default" \in DOMAIN entry THEN entry["default"]
             ELSE DefaultHints

\* the problem names and the language strings of the requests
HintNames == DOMAIN HINTS \cup {"nope", ""}
HintLanguages ==
    {"python", "javascript", "java", "cpp", "ruby", "", "Python", "bullets", "pseudocode",
     "default"}

HintsOff == hname = "" /\ hlang = "" /\ hpc = "off" /\ hres = DefaultHints

(***************************************************************************)
(* The specification of the engine                                         *)
(***************************************************************************)
ExecInit ==
    /\ call = NoCall
    /\ pc = "idle"
    /\ temp_dir = 0
    /\ dirs = {}
    /\ harness = NoHarness
    /\ phases = <<>>
    /\ procs = <<>>
    /\ elapsed = 0
    /\ compile_rc = -1
    /\ run_rc = -1
    /\ output = <<>>
    /\ pending = NoOutcome
    /\ outcome = NoOutcome
    /\ builtins = "pristine"

SubmitInit ==
    /\ sreq = NoRequest
    /\ si = 0
    /\ ran = <<>>
    /\ results = <<>>
    /\ passed = 0
    /\ failed = 0
    /\ response = NoResponse

Init ==
    /\ caller = "none"
    /\ ExecInit
    /\ SubmitInit
    /\ ptext = <<>> /\ ppc = "off" /\ parsed = VNone /\ mval = VNone
    /\ DebugIdle
    /\ catalog = PROBLEMS
    /\ ThreadsIdle
    /\ HintsOff

Next ==
    \/ TestCall
    \/ TestReturn
    \/ Mkdtemp
    \/ Render
    \/ WriteHarness
    \/ CompileSpawn
    \/ CompileTick
    \/ CompileTimeout
    \/ CompileExit
    \/ RunSpawn
    \/ RunTick
    \/ RunTimeout
    \/ RunExit
    \/ Parse
    \/ Finally
    \/ PyStart
    \/ PyTick
    \/ PyFinish
    \/ SubmitRecv
    \/ SubmitCall
    \/ SubmitRecord
    \/ SubmitRespond

Spec == Init /\ [][Next]_vars

\* the clock of a running child process or exec advances, subprocess.run
\* enforces its timeout, and a pending finally clause is run
FairSpec ==
    /\ Spec
    /\ WF_vars(CompileTick) /\ WF_vars(CompileTimeout)
    /\ WF_vars(RunTick) /\ WF_vars(RunTimeout)
    /\ WF_vars(PyTick)
    /\ WF_vars(Finally)

(***************************************************************************)
(* debug_solution as a state machine: one request after another            *)
(***************************************************************************)
restVars == <<caller, execVars, submitVars, parseVars, catalog, threadVars, hintVars>>

\* the error response of the except clause: 'error' is the class of the
\* exception (its message left out), with the trace and the captures
Failed(class) ==
    DebugResponse("failed", 200, class, trace, FALSE, dout, <<>>, <<>>, <<>>)

\* the request arrives: problem check, "Determine args", "Prepare tracing"
DebugRecv ==
    /\ dpc = "idle"
    /\ \E data \in DebugRequests :
          /\ dreq' = data
          /\ IF data.problem \notin DOMAIN PROBLEMS
             THEN dresp' = DebugError("Invalid problem") /\ dargs' = VNone /\ dpc' = "done"
             ELSE IF ~DetermineArgs(data).ok
             THEN /\ dresp' = DebugError(DetermineArgs(data).error)
                  /\ dargs' = VNone /\ dpc' = "done"
             ELSE /\ dresp' = NoDebugResponse
                  /\ dargs' = DetermineArgs(data).args /\ dpc' = "ready"
    /\ trace' = <<>> /\ truncated' = FALSE /\ dk' = 0 /\ dout' = <<>>
    /\ UNCHANGED <<hook, restVars>>

\* exec(code, namespace) and the lookup of func_name
DebugExec ==
    /\ dpc = "ready"
    /\ IF dreq.code.compile = "error"
       THEN hook' = "None" /\ dresp' = Failed("SyntaxError") /\ dpc' = "finally"
       ELSE IF dreq.code.name # FuncName(dreq.problem).s
       THEN /\ dresp' = DebugError("Function not found in submitted code")
            /\ dpc' = "finally" /\ UNCHANGED hook
       ELSE dpc' = "defined" /\ UNCHANGED <<hook, dresp>>
    /\ UNCHANGED <<dreq, dargs, trace, truncated, dk, dout, restVars>>

\* sys.settrace(tracer)
DebugSettrace ==
    /\ dpc = "defined"
    /\ hook' = "tracer"
    /\ dpc' = "running"
    /\ UNCHANGED <<dreq, dargs, trace, truncated, dk, dout, dresp, restVars>>

\* the run raises its next trace event; the interpreter hands it to the
\* trace function when one is installed
RunStep ==
    /\ dpc = "running"
    /\ dk < Len(RunEvents(dreq.code, dargs.xs))
    /\ LET ev == RunEvents(dreq.code, dargs.xs)[dk + 1]
           t == IF hook = "tracer" THEN tracer(dreq, ev, trace, truncated)
                ELSE Traced(trace, truncated, hook)
       IN  /\ trace' = t.trace /\ truncated' = t.truncated /\ hook' = t.hook
           /\ dout' = ev.out
    /\ dk' = dk + 1
    /\ UNCHANGED <<dreq, dargs, dpc, dresp, restVars>>

\* the with block is left normally: the response with retval
DebugReturn ==
    /\ dpc = "running"
    /\ dk = Len(RunEvents(dreq.code, dargs.xs))
    /\ Ending(dreq.code, dargs.xs) = "return"
    /\ dresp' = DebugResponse("ok", 200, "", trace, truncated, dout, <<>>,
                              SafeRepr(RetVal(dreq.code, dargs.xs)), SafeRepr(dargs))
    /\ dpc' = "finally"
    /\ UNCHANGED <<dreq, dargs, hook, trace, truncated, dk, dout, restVars>>

\* except Exception: sys.settrace(None) and the error response
DebugExcept ==
    /\ dpc = "running"
    /\ dk = Len(RunEvents(dreq.code, dargs.xs))
    /\ Ending(dreq.code, dargs.xs) \in ExceptionClasses
    /\ hook' = "None"
    /\ dresp' = Failed(Ending(dreq.code, dargs.xs))
    /\ dpc' = "finally"
    /\ UNCHANGED <<dreq, dargs, trace, truncated, dk, dout, restVars>>

\* what is raised is no Exception: no except clause takes it
DebugPropagate ==
    /\ dpc = "running"
    /\ dk = Len(RunEvents(dreq.code, dargs.xs))
    /\ Ending(dreq.code, dargs.xs) \notin ExceptionClasses \cup {"return"}
    /\ dresp' = Propagated(Ending(dreq.code, dargs.xs))
    /\ dpc' = "finally"
    /\ UNCHANGED <<dreq, dargs, hook, trace, truncated, dk, dout, restVars>>

\* finally: sys.settrace(None), on every way out of the try statement
DebugFinally ==
    /\ dpc = "finally"
    /\ hook' = FinallyHook(hook)
    /\ dpc' = "done"
    /\ UNCHANGED <<dreq, dargs, trace, truncated, dk, dout, dresp, restVars>>

\* the response is out and the handler's frame, with its locals, is gone;
\* what sys.settrace holds stays
DebugLeave ==
    /\ dpc = "done"
    /\ dreq' = NoDebugRequest /\ dargs' = VNone /\ dpc' = "idle"
    /\ trace' = <<>> /\ truncated' = FALSE /\ dk' = 0 /\ dout' = <<>>
    /\ dresp' = NoDebugResponse
    /\ UNCHANGED <<hook, restVars>>

DebugNext ==
    \/ DebugRecv
    \/ DebugExec
    \/ DebugSettrace
    \/ RunStep
    \/ DebugReturn
    \/ DebugExcept
    \/ DebugPropagate
    \/ DebugFinally
    \/ DebugLeave

SpecDebug == Init /\ [][DebugNext]_vars

(***************************************************************************)
(* The two threads as a state machine: every interleaving of their steps   *)
(***************************************************************************)
threadRest == <<caller, execVars, submitVars, parseVars, debugVars, catalog, hintVars>>

\* a request arrives and is given to a thread that has none
ThreadRecv(t) ==
    /\ tkind[t] = "none"
    /\ \E kind \in {"execute_python", "debug_solution"} : tkind' = [tkind EXCEPT ![t] = kind]
    /\ UNCHANGED <<tpc, target, told, tcap, thook, tout, threadRest>>

\* sys.settrace(tracer): the trace function of the calling thread
ThreadSettrace(t) ==
    /\ At(t) = <<"settrace", "">>
    /\ thook' = [thook EXCEPT ![t] = "tracer"]
    /\ Advance(t)
    /\ UNCHANGED <<tkind, target, told, tcap, tout, threadRest>>

\* __enter__: self._old_targets.append(getattr(sys, self._stream))
EnterSave(t) ==
    /\ \E s \in Streams :
          /\ At(t) = <<"save", s>>
          /\ told' = [told EXCEPT ![t][s] = target[s]]
    /\ Advance(t)
    /\ UNCHANGED <<tkind, target, tcap, thook, tout, threadRest>>

\* __enter__: setattr(sys, self._stream, self._new_target)
EnterSet(t) ==
    /\ \E s \in Streams :
          /\ At(t) = <<"set", s>>
          /\ target' = [target EXCEPT ![s] = t]
    /\ Advance(t)
    /\ UNCHANGED <<tkind, told, tcap, thook, tout, threadRest>>

\* the submission writes its line to what sys.stdout (sys.stderr) is now
Write(t) ==
    /\ \E s \in Streams :
          /\ At(t) = <<"write", s>>
          /\ tcap' = IF target[s] = 0 THEN tcap
                     ELSE [tcap EXCEPT ![target[s]][s] = Append(@, t)]
    /\ Advance(t)
    /\ UNCHANGED <<tkind, target, told, thook, tout, threadRest>>

\* __exit__: setattr(sys, self._stream, self._old_targets.pop())
ExitRedirect(t) ==
    /\ \E s \in Streams :
          /\ At(t) = <<"exit", s>>
          /\ target' = [target EXCEPT ![s] = told[t][s]]
    /\ Advance(t)
    /\ UNCHANGED <<tkind, told, tcap, thook, tout, threadRest>>

\* finally: sys.settrace(None), for the calling thread
ThreadFinally(t) ==
    /\ At(t) = <<"finally", "">>
    /\ thook' = [thook EXCEPT ![t] = "None"]
    /\ Advance(t)
    /\ UNCHANGED <<tkind, target, told, tcap, tout, threadRest>>

\* the return: stdout_capture.getvalue() and stderr_capture.getvalue()
ThreadReturn(t) ==
    /\ At(t) = <<"return", "">>
    /\ tout' = [tout EXCEPT ![t] = tcap[t]]
    /\ Advance(t)
    /\ UNCHANGED <<tkind, target, told, tcap, thook, threadRest>>

ThreadNext ==
    \/ \E t \in Threads : ThreadRecv(t)
    \/ \E t \in Threads : ThreadSettrace(t)
    \/ \E t \in Threads : EnterSave(t)
    \/ \E t \in Threads : EnterSet(t)
    \/ \E t \in Threads : Write(t)
    \/ \E t \in Threads : ExitRedirect(t)
    \/ \E t \in Threads : ThreadFinally(t)
    \/ \E t \in Threads : ThreadReturn(t)

SpecThreads == Init /\ [][ThreadNext]_vars

(***************************************************************************)
(* get_hints_for on its own: called for every name and language string     *)
(***************************************************************************)
hintRest == <<caller, execVars, submitVars, parseVars, debugVars, catalog, threadVars>>

\* get_problem (or chat) calls get_hints_for(name, language)
HintsCall ==
    /\ hpc \in {"off", "returned"}
    /\ hname' \in HintNames /\ hlang' \in HintLanguages
    /\ hpc' = "called"
    /\ UNCHANGED <<hres, hintRest>>

HintsReturn ==
    /\ hpc = "called"
    /\ hres' = get_hints_for(hname, hlang)
    /\ hpc' = "returned"
    /\ UNCHANGED <<hname, hlang, hintRest>>

HintsNext == HintsCall \/ HintsReturn

SpecHints == Init /\ [][HintsNext]_vars

(***************************************************************************)
(* The result parsers and the marshallers on their own: every text over a  *)
(* small alphabet is printed after the sentinel and parsed, and every such *)
(* text is marshalled as a str argument, echoed by the target program and  *)
(* parsed.                                                                 *)
(***************************************************************************)
\* the canonical values of the studies
MaxStrLen == 2
MaxListLen == 2

StrAlphabet == {"a", DQ, BS, NL}
Strs == UNION {[1..n -> StrAlphabet] : n \in 0..MaxStrLen}

Scalars ==
    {VInt(n) : n \in {-1, 0, 2}} \cup {VBool(TRUE), VBool(FALSE)}
    \cup {VFloat(<<15, 1>>)} \cup {VStr(s) : s \in Strs} \cup {VNone}

\* the items the lists are made of, a nested list among them
Elems == {VInt(2), VBool(TRUE), VBool(FALSE), VStr(<<"a">>), VNone, VList(<<VInt(7)>>)}

Values == Scalars \cup {VList(xs) : xs \in UNION {[1..n -> Elems] : n \in 0..MaxListLen}}

MaxTextLen == 3

Alphabet == {"1", "0", ".", "-", "a", SP, DQ, BS}

\* texts longer than MaxTextLen that the parsers treat specially
Words ==
    {T_true, T_false,
     <<"T", "r", "u", "e">>, <<"T", "R", "U", "E">>, <<"t", "r", "U", "e">>,
     <<"F", "a", "l", "s", "e">>, <<"F", "A", "L", "S", "E">>,
     <<"t", "r", "u", "e", ".">>, <<"1", "0", ".", "5", "0">>, <<"-", "1", "0", "1", "0">>,
     <<SP, "t", "r", "u", "e", SP>>, <<SP, SP, DQ, BS, SP, SP>>}

\* what JSON.stringify prints for a value
JsonStringify(v) == JsonText(v, <<",">>)

\* the texts a program prints for structured results
Structured ==
    {JsonStringify(v) : v \in Values}
    \cup {JsonStringify(VList(<<VInt(0), VInt(1)>>)), JsonStringify(VList(<<VInt(-1), VInt(-1)>>))}

Texts == UNION {[1..n -> Alphabet] : n \in 0..MaxTextLen} \cup Words \cup Structured

\* stdout of a program that prints text after the sentinel
ResultLine(text) == SENTINEL \o text \o <<NL>>

\* the harness passes the str s as an argument and the program prints the
\* parameter unchanged; NoLiteral when the marshalled text does not compile
EchoValue(lang, s) ==
    LET lit == IF lang = "java" THEN python_to_java(VStr(s)) ELSE python_to_cpp(VStr(s))
        den == TargetLiteral(lang, lit)
    IN  IF den = NoLiteral THEN NoLiteral
        ELSE ParseOutput(lang, ResultLine(den.s))

ParseResult(lang) ==
    /\ ppc = "input"
    /\ parsed' = ParseOutput(lang, ResultLine(ptext))
    /\ ppc' = lang
    /\ UNCHANGED <<caller, execVars, submitVars, debugVars, catalog, threadVars, hintVars, ptext, mval>>

JavaResult == ParseResult("java")
CppResult == ParseResult("cpp")
JsResult == ParseResult("javascript")

Echo(lang) ==
    /\ ppc = "input"
    /\ parsed' = EchoValue(lang, ptext)
    /\ ppc' = IF lang = "java" THEN "java_echo" ELSE "cpp_echo"
    /\ UNCHANGED <<caller, execVars, submitVars, debugVars, catalog, threadVars, hintVars, ptext, mval>>

JavaEcho == Echo("java")
CppEcho == Echo("cpp")

ParseInit ==
    /\ caller = "none"
    /\ ExecInit
    /\ SubmitInit
    /\ ptext \in Texts /\ ppc = "input" /\ parsed = VNone /\ mval = VNone
    /\ DebugIdle
    /\ catalog = PROBLEMS
    /\ ThreadsIdle
    /\ HintsOff

ParseNext ==
    \/ JavaResult
    \/ CppResult
    \/ JsResult
    \/ JavaEcho
    \/ CppEcho

SpecParse == ParseInit /\ [][ParseNext]_vars

(***************************************************************************)
(* The marshallers on their own: every value of a small set of canonical   *)
(* values is rendered for each target language, and the rendered text is   *)
(* read as the target's compiler or interpreter reads it.                  *)
(***************************************************************************)
\* the text the executor of lang puts into the harness for the value v
RenderValue(lang, v) ==
    CASE lang = "java" -> python_to_java(v)
      [] lang = "cpp" -> python_to_cpp(v)
      [] lang = "javascript" -> JsonDumps(v)

\* what the target language makes of the text: the value it denotes, NoLiteral
\* if it is no literal expression of that language (a JSON text is one of
\* JavaScript)
Denotes(lang, text) ==
    IF lang = "javascript"
    THEN (IF JsonLoads(text) = JSONDecodeError THEN NoLiteral ELSE JsonLoads(text))
    ELSE TargetLiteral(lang, text)

Marshal(lang) ==
    /\ ppc = "input"
    /\ ptext' = RenderValue(lang, mval)
    /\ parsed' = Denotes(lang, RenderValue(lang, mval))
    /\ ppc' = lang
    /\ UNCHANGED <<caller, execVars, submitVars, debugVars, catalog, threadVars, hintVars, mval>>

JavaMarshal == Marshal("java")
CppMarshal == Marshal("cpp")
JsMarshal == Marshal("javascript")

MarshalInit ==
    /\ caller = "none"
    /\ ExecInit
    /\ SubmitInit
    /\ ptext = <<>> /\ ppc = "input" /\ parsed = VNone /\ mval \in Values
    /\ DebugIdle
    /\ catalog = PROBLEMS
    /\ ThreadsIdle
    /\ HintsOff

MarshalNext ==
    \/ JavaMarshal
    \/ CppMarshal
    \/ JsMarshal

SpecMarshal == MarshalInit /\ [][MarshalNext]_vars

(***************************************************************************)
(* Properties                                                              *)
(***************************************************************************)
\* the text the parser classifies: result_str = line[7:].strip()
ResultStr == Strip(ptext)

\* C8 as stated: in the Java result parser the text after the sentinel is a
\* Float if it contains a decimal point, otherwise an Integer if it is
\* numeric, otherwise a Boolean if it is true or false in any case, otherwise
\* a String.
C8_JavaClassesAsStated ==
    ppc = "java" =>
        parsed.t = IF Contains(ResultStr, ".") THEN "Float"
                   ELSE IF PyIntOK(ResultStr) THEN "Int"
                   ELSE IF Lower(ResultStr) \in {T_true, T_false} THEN "Bool"
                   ELSE "Str"

\* C8 amended: the Java result parser yields a Float exactly for the texts
\* with a decimal point that float() accepts, an Integer exactly for the texts
\* without a decimal point that int() accepts, otherwise a Boolean for true
\* or false in any case, and otherwise the String of the stripped text: a
\* text with a decimal point that is no numeral is a String, not a Float.
C8_JavaClasses ==
    ppc = "java" =>
        /\ parsed.t = IF Contains(ResultStr, ".") /\ PyFloatOK(ResultStr) THEN "Float"
                      ELSE IF ~Contains(ResultStr, ".") /\ PyIntOK(ResultStr) THEN "Int"
                      ELSE IF Lower(ResultStr) \in {T_true, T_false} THEN "Bool"
                      ELSE "Str"
        /\ parsed.t = "Str" => parsed.s = ResultStr
        /\ parsed.t = "Bool" => (parsed.n = 1 <=> Lower(ResultStr) = T_true)

\* a text with a decimal point that is no numeral has been parsed as a String
C8_Witness == ppc = "java" /\ ptext = <<"a", ".", "a">> /\ parsed = VStr(ptext)

\* C9: in the C++ result parser the result text 1 is the Boolean True and
\* the result text 0 the Boolean False, not an Integer.
C9_CppOneZeroIsBoolean ==
    (ppc = "cpp" /\ ResultStr \in {<<"1">>, <<"0">>}) =>
        parsed = VBool(ResultStr = <<"1">>)

\* C10: a str with an embedded double quote and a backslash, marshalled with
\* python_to_java or python_to_cpp, printed unchanged by the target program
\* after the sentinel and parsed, comes back as exactly that str.
C10_RoundTripExact ==
    (ppc \in {"java_echo", "cpp_echo"} /\ Contains(ptext, DQ) /\ Contains(ptext, BS)) =>
        parsed = VStr(ptext)

(***************************************************************************)
(* Properties of the executors and of submit_solution                      *)
(***************************************************************************)
PhaseOrder == <<"mkdtemp", "render", "write", "compile", "run", "parse">>
IsPrefix(p, s) == Len(p) <= Len(s) /\ SubSeq(s, 1, Len(p)) = p
Range(s) == {s[i] : i \in DOMAIN s}

\* C1: in execute_java and execute_cpp the phases come in the order render,
\* write, compile, run, parse, and once the compiler has exited non-zero the
\* call fails with a compile error without a run process or a parse.
C1_CompileFailureStopsRun ==
    call.lang \in Compiled =>
        /\ IsPrefix(phases, PhaseOrder)
        /\ compile_rc \notin {-1, 0} =>
              /\ pc \in {"finally", "done", "idle"}
              /\ procs = <<"compile">>
              /\ Range(phases) \cap {"run", "parse"} = {}
              /\ run_rc = -1 /\ output = <<>>
              /\ pc = "done" => outcome = Raises("CompileError")

\* a compiled-language call has ended in a compile error
C1_Witness ==
    /\ call.lang \in Compiled /\ pc = "done" /\ compile_rc = 1
    /\ outcome = Raises("CompileError")
    /\ phases = <<"mkdtemp", "render", "write", "compile">>

\* C2: whenever no executor call is under way, none of the temporary
\* directories of the calls made so far exists, however those calls ended.
C2_NoDirectoryLeft ==
    /\ pc \in {"idle", "done"} => dirs = {}
    /\ pc = "done" => temp_dir \notin dirs

\* a call that made a directory has ended in a timeout, and the directory is gone
C2_Witness ==
    /\ pc = "done" /\ temp_dir # 0 /\ outcome = Raises("TimeoutExpired")
    /\ temp_dir \notin dirs

\* the submission under way never terminates by itself
Looping ==
    /\ pc = "running"
    /\ IF call.lang = "python" THEN PyRunsForever(call.code, call.problem_name)
       ELSE RunsForever(call.lang, call.code, harness)

\* C3: in every language, a call whose submission never terminates comes back
\* to its caller with a timeout.
C3_LoopEndsInTimeout ==
    Looping ~> (pc = "done" /\ outcome = Raises("TimeoutExpired"))

\* execute_python is running a submission that loops, past the run timeout
C3_Witness ==
    /\ call.lang = "python" /\ Looping /\ elapsed > RUN_TIMEOUT

\* the request has been answered
Answered == response.status # 0

\* C4 as stated: a request whose language is no key of LANGUAGE_EXECUTORS is
\* answered with the 'Unsupported language' error, and no executor is invoked.
C4_UnsupportedLanguageAsStated ==
    (Answered /\ sreq.body /\ LanguageOf(sreq) \notin LANGUAGE_EXECUTORS) =>
        /\ response = ErrorResponse(400, "Unsupported language")
        /\ ran = <<>> /\ caller = "none" /\ pc = "idle"

\* C4 amended: a request is never answered with an unhandled exception; a
\* request for a catalog problem in a language that is no key of
\* LANGUAGE_EXECUTORS is answered with the 'Unsupported language' error, a
\* request for an unknown problem with 'Invalid problem' whatever its
\* language, a request without a body with 'Invalid JSON data'; and no
\* executor is invoked for a request answered with an error.
C4_RejectedRequests ==
    Answered =>
        /\ response.status \in {200, 400}
        /\ (sreq.body /\ sreq.problem \in DOMAIN PROBLEMS
              /\ LanguageOf(sreq) \notin LANGUAGE_EXECUTORS) =>
                 response = ErrorResponse(400, "Unsupported language")
        /\ (sreq.body /\ sreq.problem \notin DOMAIN PROBLEMS) =>
                 response = ErrorResponse(400, "Invalid problem")
        /\ ~sreq.body => response = ErrorResponse(400, "Invalid JSON data")
        /\ response.status = 400 =>
              ran = <<>> /\ results = <<>> /\ caller = "none" /\ pc = "idle" /\ call = NoCall

\* a request for a catalog problem in an unsupported language has been rejected
C4_Witness ==
    /\ sreq.body /\ sreq.problem = "summation" /\ sreq.language = "ruby"
    /\ response = ErrorResponse(400, "Unsupported language")

\* the test numbers 1..n in order
Upto(n) == [k \in 1..n |-> k]

C6_TestLangsCallGivesFive ==
    (caller = "test" /\ pc = "done" /\ call = TestLangsCall(call.lang, SumCode)) =>
        (outcome.kind = "return" /\ outcome.value = VInt(5))

\* execute_python called as test_langs.py calls it has returned None
C6_Witness ==
    /\ caller = "test" /\ pc = "done" /\ call = TestLangsCall("python", SumCode)
    /\ outcome = Returns(VNone, <<>>, "NameError")

\* the value the executor of lang makes of a sentinel line
LineValue(lang, line) ==
    CASE lang = "java" -> JavaResultValue(Strip(DropPrefix(line, 7)))
      [] lang = "cpp" -> CppResultValue(Strip(DropPrefix(line, 7)))
      [] lang = "javascript" -> JsonLoads(DropPrefix(line, 7))

SentinelLines(out) == {i \in DOMAIN SplitLines(out) : StartsWith(SplitLines(out)[i], SENTINEL)}

\* C7: once the run process has exited with 0, the call returns the value of
\* the first stdout line that starts with the sentinel, whatever follows it,
\* and fails with result-not-found when no line starts with it.
C7_FirstSentinelLineDecides ==
    (pc \in {"finally", "done"} /\ run_rc = 0) =>
        LET o == IF pc = "done" THEN outcome ELSE pending
            hits == SentinelLines(output)
        IN  IF hits = {} THEN o = Raises("ResultNotFound")
            ELSE \E k \in hits :
                    /\ \A j \in hits : k <= j
                    /\ LET v == LineValue(call.lang, SplitLines(output)[k])
                       IN  IF v = JSONDecodeError THEN o = Raises("JSONDecodeError")
                           ELSE o = Returns(v, output, "")

\* stdout had two sentinel lines and the value of the first was returned
C7_Witness ==
    /\ pc = "done" /\ run_rc = 0
    /\ Cardinality(SentinelLines(output)) = 2
    /\ outcome.value = VInt(7)

(***************************************************************************)
(* Properties of the marshallers                                           *)
(***************************************************************************)
\* C11: for every canonical value and every target language the marshaller's
\* text is a literal expression of that language.
C11_RenderedIsLiteral ==
    ppc \in LANGUAGE_EXECUTORS => parsed # NoLiteral

\* python_to_cpp has rendered a list as Python writes it, which is no C++
C11_Witness ==
    /\ ppc = "cpp" /\ mval = VList(<<VInt(2), VBool(TRUE)>>)
    /\ ptext = <<"[", "2", ",", SP, "T", "r", "u", "e", "]">>
    /\ parsed = NoLiteral

\* the target's spelling of a Boolean
BoolLiteral(v) == IF v.n = 1 THEN T_true ELSE T_false

\* the texts of the items of a rendered list: what stands between the opening
\* of the rendered list and its last character, split at the commas
RenderedItems(lang, text) ==
    IF lang = "java" THEN SplitArgs(SubSeq(text, Len(T_newObject) + 1, Len(text) - 1))
    ELSE SplitArgs(SubSeq(text, 2, Len(text) - 1))

\* C12: python_to_java and python_to_cpp render a Boolean argument as true or
\* false, and a Boolean item of a List argument likewise, never as 1 or 0 nor
\* as True or False.
C12_BooleansAsTargetLiterals ==
    ppc \in {"java", "cpp"} =>
        /\ mval.t = "Bool" => ptext = BoolLiteral(mval)
        /\ mval.t = "List" =>
              LET items == RenderedItems(ppc, ptext)
              IN  /\ Len(items) = Len(mval.xs)
                  /\ \A i \in DOMAIN mval.xs :
                        mval.xs[i].t = "Bool" => items[i] = BoolLiteral(mval.xs[i])

\* python_to_cpp has rendered a list holding a Boolean with Python's spelling
C12_Witness ==
    /\ ppc = "cpp" /\ mval = VList(<<VBool(TRUE)>>)
    /\ ptext = <<"[", "T", "r", "u", "e", "]">>

(***************************************************************************)
(* Properties of the result parsers, continued                             *)
(***************************************************************************)
\* C13: whatever text the program prints after the sentinel, execute_java and
\* execute_cpp return an Integer, a Float, a Boolean or a String, never a List
\* or None; execute_javascript returns every value JSON.stringify printed,
\* a List with its items and nesting.
C13_CompiledResultsAreFlat ==
    /\ ppc \in {"java", "cpp"} => parsed.t \in {"Int", "Float", "Bool", "Str"}
    /\ ppc = "javascript" =>
          \A v \in Values : ptext = JsonStringify(v) => parsed = v

\* execute_javascript has returned a nested list
C13_Witness ==
    /\ ppc = "javascript"
    /\ parsed = VList(<<VInt(2), VList(<<VInt(7)>>)>>)

(***************************************************************************)
(* Properties of submit_solution, continued                                *)
(***************************************************************************)
\* the str the response shows for a list of ints
ListStr(ns) == PyStr(Ints(ns))

\* C14: a correct two_sum submission gives [0, 1] for ([2, 7, 11, 15], 9) and
\* [-1, -1] for ([1, 2, 3], 10) in every supported language, and passes those
\* catalog tests.
C14_TwoSumPassesEverywhere ==
    (response.status = 200 /\ sreq.problem = "two_sum"
        /\ sreq.code.compile = "ok" /\ sreq.code.name = N_two_sum) =>
            /\ response.results[1].passed /\ response.results[1].actual = ListStr(<<0, 1>>)
            /\ response.results[4].passed /\ response.results[4].actual = ListStr(<<-1, -1>>)

\* a correct two_sum submission in Java has been answered: its first test
\* ended in a compile error
C14_Witness ==
    /\ response.status = 200 /\ sreq.problem = "two_sum" /\ LanguageOf(sreq) = "java"
    /\ sreq.code = Code("ok", N_two_sum, "pairs")
    /\ response.results[1].error = "CompileError" /\ ~response.results[1].passed


\* C15: whichever way debug_solution returns (normal completion, step cap,
\* exception in the user code, entry point not found, rejected request), no
\* trace hook is installed afterwards, and the hook is installed only between
\* sys.settrace(tracer) and the finally clause of the try statement that
\* runs the submitted function.
C15_NoHookLeftInstalled ==
    /\ dpc \in {"idle", "done"} => hook = "None"
    /\ hook = "tracer" => dpc \in {"running", "finally"}

\* a run completed normally under the cap: only the finally clause has
\* uninstalled the hook
C15_Witness ==
    /\ dpc = "done" /\ dresp.kind = "ok" /\ ~dresp.truncated
    /\ Len(dresp.trace) > 0 /\ hook = "None"


\* C16: once the number of recorded steps has reached maxSteps no further
\* record is appended, and the truncated flag of the response is true if and
\* only if the cap was reached before the traced function returned: a run
\* whose records stay under the cap reports truncated = false.
C16_CapStopsRecording ==
    /\ [][(dpc = "running" /\ Len(trace) >= MaxSteps(dreq)) => trace' = trace]_vars
    /\ [](dresp.kind = "ok" => (dresp.truncated <=> Len(dresp.trace) >= MaxSteps(dreq)))

\* a run was cut at a cap of two records and went on to return
C16_Witness ==
    /\ dresp.kind = "ok" /\ dresp.truncated
    /\ MaxSteps(dreq) = 2 /\ Len(dresp.trace) = 2
    /\ dk > 3


\* the events the run has raised so far
EventsSoFar == SubSeq(RunEvents(dreq.code, dargs.xs), 1, dk)

\* the call, line and return events of the submitted code among evs: all of
\* them when no breakpoint set is configured, else those on a breakpoint line
Selected(evs) ==
    LET Sel(ev) ==
            /\ ev.file = USER_FILE
            /\ ev.event \in {"call", "line", "return"}
            /\ Breakpoints(dreq) # {} => ev.line \in Breakpoints(dreq)
    IN  SelectSeq(evs, Sel)

\* how many of the items of a sequence are 'line' events (or their records)
Lines(s) == Cardinality({i \in DOMAIN s : s[i].event = "line"})

\* C17: while the cap is not reached the trace holds exactly one record, in
\* execution order, for each call, line and return event of the submitted
\* code when no breakpoint set is configured, and only for the events on a
\* breakpoint line when one is; so with no breakpoints there are as many
\* 'line' records as executed line visits, every loop iteration counted.
C17_OneRecordPerSelectedEvent ==
    (dpc \in {"running", "finally", "done"} /\ ~truncated) =>
        /\ trace = [i \in DOMAIN Selected(EventsSoFar) |-> Step(dreq, Selected(EventsSoFar)[i])]
        /\ Breakpoints(dreq) = {} =>
              Lines(trace) = Lines(SelectSeq(EventsSoFar, LAMBDA ev : ev.file = USER_FILE))

\* the loop of three iterations has been traced with no breakpoints: eleven
\* records, nine of them 'line' records
C17_Witness ==
    /\ dresp.kind = "ok" /\ ~dresp.truncated
    /\ Breakpoints(dreq) = {} /\ dreq.code.body = "acc"
    /\ Len(dresp.trace) = 11 /\ Lines(dresp.trace) = 9


\* the submitted function has been called and has raised
HasRaised ==
    /\ dpc \in {"finally", "done"}
    /\ dk > 0 /\ dk = Len(RunEvents(dreq.code, dargs.xs))
    /\ Ending(dreq.code, dargs.xs) # "return"

\* C18: when the traced function raises an exception, debug_solution returns
\* an error outcome that holds every trace record collected before the
\* exception, in order, and the captured stdout and stderr.
C18_ErrorOutcomeKeepsTrace ==
    HasRaised =>
        /\ dresp.kind = "failed" /\ dresp.error = Ending(dreq.code, dargs.xs)
        /\ dresp.trace = trace
        /\ dresp.stdout = dout /\ dresp.stderr = <<>>

\* the function printed a line and raised ValueError: the error outcome
\* holds the three records and the line
C18_Witness ==
    /\ HasRaised /\ dreq.code.body = "raise"
    /\ dresp.kind = "failed" /\ Len(dresp.trace) = 3 /\ dresp.stdout = <<"x", NL>>


\* the previews a record holds: those of its locals and its return value
Previews(step) == {step.locals[j].v : j \in DOMAIN step.locals} \cup {step.ret}

\* C19: every local-variable value in a trace record is a text of at most
\* max_len characters plus one ellipsis, the preview of the value at the
\* moment of the event; a record that has been appended never changes,
\* whatever the traced code does to the variable afterwards.
C19_PreviewsBoundedAndFixed ==
    /\ [](\A i \in DOMAIN trace :
             /\ \A s \in Previews(trace[i]) : Len(s) <= MAX_LEN + 1
             /\ ~truncated =>
                   trace[i].locals = LocalsSnapshot(Selected(EventsSoFar)[i].locals))
    /\ [][dpc = "running" => IsPrefix(trace, trace')]_vars

\* the record of line 3 shows the list empty and the record of line 4 shows
\* it, after it was extended, cut to max_len characters and an ellipsis
C19_Witness ==
    /\ dresp.kind = "ok" /\ dreq.code.body = "big" /\ Len(dresp.trace) = 5
    /\ dresp.trace[3].locals[3] = Local("big", <<"[", "]">>)
    /\ Len(dresp.trace[4].locals[3].v) = MAX_LEN + 1
    /\ dresp.trace[4].locals[3].v[MAX_LEN + 1] = ELLIPSIS


\* the results a server that has served no request gives a Python submission
FreshResults(req) ==
    [i \in DOMAIN PROBLEMS[req.problem] |->
        TestResult(i - 1, PROBLEMS[req.problem][i],
                   PyOutcome(req.code, PROBLEMS[req.problem][i].args, FuncName(req.problem),
                             "pristine"))]

\* C20: a request gives the same outcome whenever it is submitted, whatever
\* requests were served before it: for a Python submission the per-test
\* actual values and pass flags and the counts are those a server that has
\* served no request gives (the other executors run the code in a child
\* process of its own).
C20_SameRequestSameOutcome ==
    (response.status = 200 /\ LanguageOf(sreq) = "python") =>
        /\ response.results = FreshResults(sreq)
        /\ response.passed =
              Cardinality({i \in DOMAIN FreshResults(sreq) : FreshResults(sreq)[i].passed})
        /\ response.failed = response.total - response.passed

\* a submission that calls sum has been answered after one that rebinds
\* builtins.sum: the first test, which it passes on a fresh server, failed
C20_Witness ==
    /\ response.status = 200 /\ LanguageOf(sreq) = "python"
    /\ sreq.code = Code("ok", N_summation, "builtin") /\ sreq.problem = "summation"
    /\ builtins = "patched"
    /\ ~response.results[1].passed /\ response.passed = 2


(***************************************************************************)
(* Properties of the catalog, the counters and the remaining handlers      *)
(***************************************************************************)
\* C21: the arguments and the expected values of the test cases of PROBLEMS
\* are never mutated: whatever requests have been served, with whatever
\* submitted code, every test case holds its initial arguments and expected
\* value.
C21_CatalogNeverMutated == catalog = PROBLEMS

\* a two_sum submission that sorts its list argument has run the second
\* catalog test, whose list is [3, 2, 4]
C21_Witness ==
    /\ response.status = 200 /\ sreq.code = Code("ok", N_two_sum, "sortpairs")
    /\ sreq.problem = "two_sum" /\ LanguageOf(sreq) = "python"
    /\ catalog["two_sum"][2].args.xs[1] = Ints(<<2, 3, 4>>)


\* C22: two calls running on two threads of the process share no mutable
\* state: under every interleaving, the stdout and the stderr a call returns
\* hold exactly what its own submission wrote, and nothing the other wrote.
C22_CapturesAreOwn ==
    \A t \in Threads : Finished(t) => \A s \in Streams : tout[t][s] = <<t>>

\* both threads have finished and thread 1 returned its own line on stdout
C22_Witness ==
    /\ \A t \in Threads : Finished(t)
    /\ tkind[1] = "execute_python" /\ tkind[2] = "execute_python"
    /\ tout[1]["stdout"] = <<1>> /\ tout[2]["stdout"] = <<2>>


\* C23: the trace hook is never installed by more than one concurrent request
\* of the process: in no state of two overlapping debug_solution calls do
\* both have their hook installed, and a call that finishes never uninstalls
\* the hook of a call that is still running.
C23_OneHookAtATime ==
    /\ [](Cardinality({t \in Threads : thook[t] = "tracer"}) <= 1)
    /\ [][\A t \in Threads :
             (thook[t] = "tracer" /\ thook'[t] = "None") => At(t) = <<"finally", "">>]_vars

\* a debug_solution call has finished and uninstalled its hook while the
\* other call is still running with its own
C23_Witness ==
    /\ tkind[1] = "debug_solution" /\ tkind[2] = "debug_solution"
    /\ Finished(1) /\ thook[1] = "None"
    /\ At(2) = <<"write", "stdout">> /\ thook[2] = "tracer"


\* the test result submit_solution has just appended, while the executor
\* call it came from is still at hand
JustRecorded ==
    /\ caller = "submit" /\ pc = "idle" /\ call # NoCall /\ outcome # NoOutcome
    /\ si > 0 /\ Len(results) >= si

\* the execution behind that result failed: the executor raised, or
\* execute_python caught an exception of the user code
ExecutionFailed == outcome.kind = "raise" \/ outcome.stderr # ""

\* C24: every failed test execution in submit_solution (compile error,
\* non-zero run exit, timeout, missing RESULT line, exception in Python user
\* code) is reported as a test result that carries an error description and
\* the stdout captured up to the failure.
C24_FailuresCarryCaptures ==
    (JustRecorded /\ ExecutionFailed) =>
        /\ results[si].error # "" \/ results[si].stderr # ""
        /\ results[si].stdout = output

\* a Java run that printed a line and exited with a non-zero code has been
\* recorded
C24_Witness ==
    /\ JustRecorded /\ call.lang = "java" /\ run_rc = 1
    /\ output = T_forged /\ results[si].error = "RuntimeError"


\* the problem has an entry keyed by language that holds this language
HasLanguageEntry(name, language) ==
    /\ name \in DOMAIN HINTS
    /\ language \in {"python", "javascript", "java", "cpp"}
    /\ HINTS[name] = PerLanguage(name)

\* C25: for every problem name and every language string get_hints_for
\* returns a dict with the keys 'bullets' and 'pseudocode': the entry of the
\* language when the problem has one for it, the flat legacy entry
\* otherwise, and the default 'No hints available yet.' when nothing
\* applies.
C25_HintsAlwaysADict ==
    hpc = "returned" =>
        /\ hres.t = "dict"
        /\ hres = IF HasLanguageEntry(hname, hlang) THEN HINTS[hname][hlang]
                  ELSE IF hname \in DOMAIN HINTS /\ HINTS[hname] = Legacy(hname)
                  THEN HintDict(<<hname>>, hname)
                  ELSE DefaultHints

\* a flat legacy entry has been asked for in Java and came back as a dict
C25_Witness ==
    /\ hpc = "returned" /\ hname = "two_sum_sorted" /\ hlang = "java"
    /\ hres = HintDict(<<"two_sum_sorted">>, "two_sum_sorted")


\* C26: in execute_javascript, execute_java and execute_cpp a non-zero exit
\* code of the run process always ends in a runtime error and the stdout of
\* the run is never parsed, even when it holds a line that starts with
\* RESULT:; a value is returned only when the run process exited with 0.
C26_NonZeroExitNeverParsed ==
    /\ run_rc \notin {-1, 0} =>
          /\ "parse" \notin Range(phases)
          /\ pc # "ran"
          /\ pc = "finally" => pending = Raises("RuntimeError")
          /\ pc \in {"done", "idle"} => outcome = Raises("RuntimeError")
    /\ (call.lang \in {"javascript", "java", "cpp"} /\ outcome.kind = "return") => run_rc = 0

\* a C++ run printed RESULT:7 and exited with code 1: the call raised
C26_Witness ==
    /\ call.lang = "cpp" /\ pc = "done" /\ run_rc = 1 /\ output = T_forged
    /\ outcome = Raises("RuntimeError")


\* the tests of a Python submission whose execution failed: execute_python
\* caught an exception of the user code or found no entry point
FailedExecutions == {i \in DOMAIN response.results : response.results[i].stderr # ""}

\* C27: a test case whose execution failed is never counted as passed: with
\* language python, a test case for which the submitted code raises or does
\* not define the entry point is reported with passed = false and counted in
\* 'failed', for every catalog test case, those that expect None included.
C27_FailedNeverPassed ==
    (response.status = 200 /\ LanguageOf(sreq) = "python") =>
        /\ \A i \in FailedExecutions : ~response.results[i].passed
        /\ response.failed >= Cardinality(FailedExecutions)

\* a submission without the entry point has been run on second_largest,
\* whose second test expects None
C27_Witness ==
    /\ response.status = 200 /\ LanguageOf(sreq) = "python"
    /\ sreq.problem = "second_largest" /\ sreq.code = Code("ok", N_other, "sum")
    /\ FailedExecutions = {1, 2, 3}


\* the entries of a result list that say passed, and those that do not
PassedEntries(rs) == {i \in DOMAIN rs : rs[i].passed}
FailedEntries(rs) == {i \in DOMAIN rs : ~rs[i].passed}

\* C28: in every successful submit_solution response passed + failed = total =
\* the number of test cases of the problem = the number of result entries; each
\* test case increments exactly one counter (after every test the counters sum
\* to the number of entries), an entry says passed exactly when it was counted
\* in 'passed', and the entry of test i (from 0) carries test_num = i + 1.
C28_CountersMatchResults ==
    /\ caller = "submit" =>
          /\ passed + failed = Len(results)
          /\ passed = Cardinality(PassedEntries(results))
          /\ failed = Cardinality(FailedEntries(results))
    /\ response.status = 200 =>
          /\ response.passed + response.failed = response.total
          /\ response.total = Len(PROBLEMS[sreq.problem])
          /\ Len(response.results) = response.total
          /\ response.passed = Cardinality(PassedEntries(response.results))
          /\ response.failed = Cardinality(FailedEntries(response.results))
          /\ \A i \in DOMAIN response.results : response.results[i].test_num = i

\* a response whose tests partly passed and partly failed
C28_Witness ==
    /\ response.status = 200 /\ sreq.problem = "summation"
    /\ response.passed >= 1 /\ response.failed >= 1


\* C29: the trace returned by debug_solution never contains more than maxSteps
\* records, for every requested maxSteps value, 0 and negative values
\* included, and every submitted program; nor does the trace being built.
\* (a cap of 0 or less allows no record).
Allowed(data) == IF MaxSteps(data) > 0 THEN MaxSteps(data) ELSE 0
C29_TraceWithinMaxSteps ==
    /\ Len(trace) <= Allowed(dreq)
    /\ dresp.kind # "none" => Len(dresp.trace) <= Allowed(dreq)

\* a run under a cap of three records was answered with three records and
\* had more events than were recorded
C29_Witness ==
    /\ dresp.kind = "ok" /\ MaxSteps(dreq) = 3
    /\ Len(dresp.trace) = 3 /\ dresp.truncated
    /\ dreq.breakpoints = <<>>


\* the request names a test by an integer testIndex; the index is a position
\* of the problem's test list
IndexGiven(data) == data.testIndex.t = "Int"
IndexInRange(data) ==
    data.testIndex.n >= 0 /\ data.testIndex.n < Len(catalog[data.problem])

\* the request carries a non-empty customArgsJson that decodes to an array
CustomArray(data) ==
    /\ data.customArgsJson.t = "Str" /\ data.customArgsJson.s # <<>>
    /\ JsonLoads(data.customArgsJson.s) # JSONDecodeError
    /\ JsonLoads(data.customArgsJson.s).t = "List"

\* the request carries no customArgsJson, or an empty one
NoCustom(data) == data.customArgsJson = Absent \/ data.customArgsJson.s = <<>>

\* C30: debug_solution chooses its arguments by precedence: an integer
\* testIndex selects that catalog test, otherwise a non-empty customArgsJson
\* that decodes to a JSON array supplies them, otherwise the first catalog
\* test; a testIndex that is not a position in 0..len(tests)-1, too large or
\* negative, is answered with 'Invalid testIndex' and no user code is run.
C30_ArgsByPrecedence ==
    (dpc # "idle" /\ dreq.problem \in DOMAIN catalog) =>
        LET tests == catalog[dreq.problem]
        IN  /\ (IndexGiven(dreq) /\ IndexInRange(dreq)) =>
                   dargs = tests[dreq.testIndex.n + 1].args
            /\ (IndexGiven(dreq) /\ ~IndexInRange(dreq)) =>
                   /\ dresp = DebugError("Invalid testIndex")
                   /\ dpc = "done" /\ dk = 0 /\ trace = <<>>
            /\ (~IndexGiven(dreq) /\ CustomArray(dreq)) =>
                   dargs = VTuple(JsonLoads(dreq.customArgsJson.s).xs)
            /\ (~IndexGiven(dreq) /\ NoCustom(dreq)) => dargs = tests[1].args


\* a request with testIndex -1 has run the submitted code on the last
\* catalog test and was answered with its return value
C30_Witness ==
    /\ dreq.problem = "summation" /\ dreq.testIndex = VInt(-1)
    /\ dresp.kind = "ok" /\ dresp.status = 200
    /\ dargs = catalog["summation"][Len(catalog["summation"])].args

====
